---- MODULE Spec2Model ----
(***************************************************************************)
(* Model of python_schematron:                                             *)
(*   schematron_to_xslt_local.py  the build cache and the 3-stage          *)
(*                                compilation pipeline                     *)
(*   fast_validator.py            the validator, the severity chain and    *)
(*                                the per-document report                  *)
(*                                                                         *)
(* Specifications:                                                         *)
(*   Spec     sequential batch compilations; rule sources are edited only  *)
(*            between two batches.                                         *)
(*   SpecEnv  Spec plus external edits of a rule source at any step of a   *)
(*            compile and cache files made unreadable from outside.        *)
(***************************************************************************)
EXTENDS Integers, Sequences, FiniteSets, TLC

\* ------------------------------------------------------------------ bounds
NumSources == 2
NumVersions == 2
MaxRuns == 2
MaxFaults == 1
MaxEdits == 1
MaxWords == 2
MaxFindings == 1
MaxDocs == 2
MaxTokens == 4
MaxPasses == 2
MaxElems == 2

Sources == 1..NumSources        \* the *.sch files, in glob order
Versions == 1..NumVersions      \* the byte contents a rule source can have
Stages == 1..3                  \* the three ISO transformation stylesheets
Procs == 1..2                   \* two runs of the pipeline at once

VARIABLES
    \* ---- the disk
    content,        \* content[s]: the current bytes of rule source s
    artifact,       \* artifact[s]: output_dir/<stem>.xsl
    cacheFile,      \* cacheFile[s]: cache_dir/<stem>.cache
    temp,           \* temp[s][k]: temp_dir/<stem>_step<k>.xml (0: absent)
    faults,         \* the I/O and engine failures that have happened so far
    edits,          \* the external edits of rule sources so far
    isoPresent,     \* the ISO stylesheets that exist under base_dir
    schDirExists,   \* whether schematron_dir exists
    \* ---- transform_all_schematron_files
    pc, runs, force, idx, success_count, batchResult,
    \* ---- transform_schematron_file, the compile in progress
    file_hash,      \* the local file_hash (0 before it is computed)
    ret,            \* what the compile returned
    pre,            \* artifact and cache file of the source when the compile began,
                    \* (out) the content the stage-3 output of this compile came from,
                    \* and (undeleted) the intermediates whose unlink failed
    \* ---- history of the run, kept for the properties
    chk,            \* the last needs_transformation call: its inputs and its answer
    outcome,        \* outcome[s] in this batch: pending, skipped, compiled, failed
    order,          \* the sources the loop has taken up, in order
    engineCalls,    \* engineCalls[s]: the engine calls made for s in this batch, with their outcome
    saved,          \* saved[s]: save_cache_info wrote both lines for s in this batch
    endSnap,        \* how the last finished batch ended
    hist,           \* how the batch before the current one ended, and the content at start
    \* ---- the severity chain
    sevIn,          \* a failed-assert element: its role, text and test
    sevOut,         \* the severity the analyzer gave it
    \* ---- the validator
    xslt_cache,     \* xslt_cache[s]: the executable cached for stylesheet path s
    stats,          \* the statistics: total_validations and cache_hits
    xsl_files,      \* the stylesheet paths validate_xml_file was given, in order
    vpc, vidx, docs,
    results,        \* the result dictionary of validate_xml_file
    report,         \* the JSON result of the document
    \* ---- history of the validator, kept for the properties
    vlog,           \* the get_compiled_xslt and engine calls made for the document, in
                    \* order, each with the stylesheet that was on disk at the call
    compiles,       \* compiles[s]: the engine compiles of path s that gave an executable
    failedGet,      \* failedGet[s]: a get_compiled_xslt call for s has returned None
    answered,       \* the get_compiled_xslt calls answered without an engine call
    prevFault,      \* the engine failed while an earlier document was validated
    \* ---- main and validate_samples
    mpc,            \* where main is: start, docs (the loop over the documents), exit
    mode,           \* "single" (--single-file) or "batch"
    nDocs,          \* the XML documents to validate
    all_results,    \* the result dictionaries returned so far
    exit_code,      \* the status given to sys.exit (-1: none yet)
    \* ---- add_missing_xsd_namespace on one compiled stylesheet
    nsText,         \* the text of the file, as a sequence of tokens
    nsLog,          \* the passes made over it: text before and after, result, I/O
    \* ---- validate_output
    checked,        \* what the last call of validate_output returned, until the
                    \* loop goes on: none, passed, warned
    \* ---- two runs of transform_schematron_file on rule source 1 at once
    cpc,            \* cpc[p]: where run p is
    cres,           \* cres[p]: what run p returned
    chash,          \* chash[p]: the local file_hash of run p
    overlap         \* a step of one run was taken while the other was under way

diskVars == <<content, artifact, cacheFile, temp, faults, edits, isoPresent, schDirExists>>
batchVars == <<pc, runs, force, idx, success_count, batchResult>>
compileVars == <<file_hash, ret, pre>>
ghostVars == <<chk, outcome, order, engineCalls, saved, endSnap, hist>>
pipeVars == <<diskVars, batchVars, compileVars, ghostVars>>
sevVars == <<sevIn, sevOut>>
valGhost == <<vlog, compiles, failedGet, answered, prevFault>>
valVars == <<xslt_cache, stats, xsl_files, vpc, vidx, docs, results, report, valGhost>>
mainVars == <<mpc, mode, nDocs, all_results, exit_code>>
nsVars == <<nsText, nsLog>>
postVars == <<checked>>
concVars == <<cpc, cres, chash, overlap>>
vars == <<pipeVars, sevVars, valVars, mainVars, nsVars, postVars, concVars>>

\* ------------------------------------------------------------------ values
NoArtifact == [src |-> 0, st |-> "absent"]
NoCache == [exists |-> FALSE, readable |-> TRUE, lines |-> <<>>]
NoTemps == [k \in Stages |-> 0]
NoRet == [ok |-> FALSE, stage |-> 0, kind |-> "none"]
NoPre == [artifact |-> NoArtifact, cache |-> NoCache, out |-> 0, undeleted |-> {}]
NoChk == [s |-> 0, need |-> FALSE, artifact |-> NoArtifact, cache |-> NoCache, content |-> 0]

\* the sequences of at most n members of S
RECURSIVE SeqsUpTo(_, _)
SeqsUpTo(S, n) ==
    IF n = 0 THEN {<<>>}
    ELSE SeqsUpTo(S, n - 1) \cup
         { Append(q, x) : q \in SeqsUpTo(S, n - 1), x \in S }

\* the openings of a stylesheet root element the program looks for
RootOpens == {"<xsl:stylesheet", "<stylesheet"}

\* hashlib.md5 of the file's bytes: a fixed-size digest, taken to be free of
\* collisions on the contents of the model (MD5 as a content key).
Digest(v) == 2 * v + 1

\* calculate_file_hash(sch_file)
calculate_file_hash(s) == Digest(content[s])

\* variant: the text is split without strip(), so that the newline that ends
\* the last line gives one more, empty, line
SplitLines_unstripped(text) == text \o <<0>>

\* f.read().strip().split('\n'): an empty text splits into one empty line (0)
SplitLines(text) == IF text = <<>> THEN <<0>> ELSE text

\* variant: a cache file of one line is taken for a record
get_cache_info_first_line(s) ==
    LET f == cacheFile[s] IN
    IF f.exists /\ f.readable /\ Len(SplitLines(f.lines)) >= 1
    THEN <<SplitLines(f.lines)[1], 0>>
    ELSE <<>>

\* get_cache_info: {'hash': lines[0], 'timestamp': lines[1]} as <<hash, timestamp>>,
\* {} as <<>>
get_cache_info(s) ==
    LET f == cacheFile[s] IN
    IF f.exists /\ f.readable /\ Len(SplitLines(f.lines)) >= 2
    THEN <<SplitLines(f.lines)[1], SplitLines(f.lines)[2]>>
    ELSE <<>>

\* cache_info.get('hash'): None is 0, which no digest equals
dict_get_hash(info) == IF Len(info) = 0 THEN 0 ELSE info[1]

\* variant: only the presence of the compiled stylesheet is looked at
needs_transformation_missing_only(s) == artifact[s].st = "absent"

needs_transformation(s) ==
    IF artifact[s].st = "absent" THEN TRUE
    ELSE dict_get_hash(get_cache_info(s)) # calculate_file_hash(s)

\* variant: one transformation stylesheet is enough
check_requirements_some == isoPresent # {} /\ schDirExists

check_requirements == isoPresent = Stages /\ schDirExists

\* ------------------------------------------------------------------ Init
PipeInit ==
    /\ content = [s \in Sources |-> 1]
    /\ artifact = [s \in Sources |-> NoArtifact]
    /\ cacheFile = [s \in Sources |-> NoCache]
    /\ temp = [s \in Sources |-> NoTemps]
    /\ faults = 0
    /\ edits = 0
    /\ isoPresent \in SUBSET Stages
    /\ schDirExists \in BOOLEAN
    /\ pc = "idle" /\ runs = 0 /\ force = FALSE /\ idx = 1
    /\ success_count = 0 /\ batchResult = "none"
    /\ file_hash = 0 /\ ret = NoRet /\ pre = NoPre
    /\ chk = NoChk
    /\ outcome = [s \in Sources |-> "pending"]
    /\ order = <<>>
    /\ engineCalls = [s \in Sources |-> <<>>]
    /\ saved = [s \in Sources |-> FALSE]
    /\ endSnap = [good |-> FALSE, content |-> [s \in Sources |-> 1]]
    /\ hist = [prevGood |-> FALSE, prevContent |-> [s \in Sources |-> 1],
               startContent |-> [s \in Sources |-> 1]]

\* One more failure of the engine or of the file system happens (n of them);
\* a behaviour of the model holds at most MaxFaults of them.
Fault(n) == faults + n <= MaxFaults /\ faults' = faults + n

\* ------------------------------------------------------------------ the environment
\* A rule source is authored outside the program: its bytes become version v.
ModifySource(s, v) ==
    /\ v # content[s]
    /\ edits < MaxEdits
    /\ edits' = edits + 1
    /\ content' = [content EXCEPT ![s] = v]
    /\ UNCHANGED <<artifact, cacheFile, temp, faults, isoPresent, schDirExists>>
    /\ UNCHANGED <<batchVars, compileVars, ghostVars>>
    /\ UNCHANGED <<sevVars, valVars, mainVars, nsVars, postVars, concVars>>

\* between two batches
EditBetweenRuns ==
    /\ pc \in {"idle", "done"}
    /\ \E s \in Sources, v \in Versions : ModifySource(s, v)

\* at any step of a batch
EditDuringRun ==
    /\ pc \notin {"idle", "done"}
    /\ \E s \in Sources, v \in Versions : ModifySource(s, v)

\* A cache file is made unreadable from outside (its permissions, its encoding).
DamageCache ==
    /\ edits < MaxEdits
    /\ edits' = edits + 1
    /\ \E s \in Sources :
        /\ cacheFile[s].exists /\ cacheFile[s].readable
        /\ cacheFile' = [cacheFile EXCEPT ![s].readable = FALSE]
    /\ UNCHANGED <<content, artifact, temp, faults, isoPresent, schDirExists>>
    /\ UNCHANGED <<batchVars, compileVars, ghostVars>>
    /\ UNCHANGED <<sevVars, valVars, mainVars, nsVars, postVars, concVars>>

\* ------------------------------------------------------------------ the batch
\* transform_all_schematron_files, lines 367-381: the requirements check and the
\* glob; the list of sources is never empty in the model.
StartBatch ==
    /\ pc \in {"idle", "done"}
    /\ runs < MaxRuns
    /\ runs' = runs + 1
    /\ \E f \in BOOLEAN : force' = f
    /\ idx' = 1
    /\ success_count' = 0
    /\ outcome' = [s \in Sources |-> "pending"]
    /\ order' = <<>>
    /\ engineCalls' = [s \in Sources |-> <<>>]
    /\ saved' = [s \in Sources |-> FALSE]
    /\ chk' = NoChk
    /\ hist' = [prevGood |-> (pc = "done" /\ endSnap.good),
                prevContent |-> endSnap.content,
                startContent |-> content]
    /\ IF check_requirements
       THEN /\ pc' = "loop"
            /\ batchResult' = "none"
            /\ endSnap' = endSnap
       ELSE /\ pc' = "done"
            /\ batchResult' = "failed"
            /\ endSnap' = [good |-> FALSE, content |-> content]
    /\ UNCHANGED <<diskVars, compileVars>>
    /\ UNCHANGED <<sevVars, valVars, mainVars, nsVars, postVars, concVars>>

\* variant: the cache check decides, with or without force_rebuild
up_to_date_cache_only(force_rebuild, need) == ~need

\* line 385: not force_rebuild and not self.needs_transformation(sch_file)
up_to_date(force_rebuild, need) == ~force_rebuild /\ ~need

\* lines 385-388: the source is up to date and is skipped
Skip ==
    /\ pc = "loop" /\ idx <= NumSources
    /\ up_to_date(force, needs_transformation(idx))
    /\ chk' = [s |-> idx, need |-> FALSE, artifact |-> artifact[idx],
               cache |-> cacheFile[idx], content |-> content[idx]]
    /\ success_count' = success_count + 1
    /\ outcome' = [outcome EXCEPT ![idx] = "skipped"]
    /\ order' = Append(order, idx)
    /\ idx' = idx + 1
    /\ UNCHANGED <<diskVars, compileVars, pc, runs, force, batchResult>>
    /\ UNCHANGED <<engineCalls, saved, endSnap, hist>>
    /\ checked' = "none"
    /\ UNCHANGED <<sevVars, valVars, mainVars, nsVars, concVars>>

\* lines 385, 391 and 235-244: the pipeline is entered for the source
BeginCompile ==
    /\ pc = "loop" /\ idx <= NumSources
    /\ ~up_to_date(force, needs_transformation(idx))
    /\ chk' = IF force THEN NoChk
              ELSE [s |-> idx, need |-> TRUE, artifact |-> artifact[idx],
                    cache |-> cacheFile[idx], content |-> content[idx]]
    /\ order' = Append(order, idx)
    /\ pre' = [artifact |-> artifact[idx], cache |-> cacheFile[idx], out |-> 0,
               undeleted |-> {}]
    /\ ret' = NoRet
    /\ file_hash' = 0
    /\ pc' = "stage1"
    /\ UNCHANGED <<diskVars, runs, force, idx, success_count, batchResult>>
    /\ UNCHANGED <<outcome, engineCalls, saved, endSnap, hist>>
    /\ checked' = "none"
    /\ UNCHANGED <<sevVars, valVars, mainVars, nsVars, concVars>>

\* ------------------------------------------------------------------ the pipeline
StagePc(k) == IF k = 1 THEN "stage1" ELSE IF k = 2 THEN "stage2" ELSE "stage3"

\* what stage k reads: the rule source, or the intermediate of the stage before
StageInput(s, k) == IF k = 1 THEN content[s] ELSE temp[s][k - 1]

\* run_xslt_transformation: True only when the stylesheet compiled, the
\* transformation ran and the processor's exception flag is clear
StageOutcomes == {"ok", "compile_fail", "fault", "exception"}
run_xslt_transformation(o) == o = "ok"

\* variant: the pipeline goes on to the next stage whatever the stage returned
AfterStage_go_on(k, ok) ==
    IF k = 1 THEN "stage2" ELSE IF k = 2 THEN "stage3" ELSE "delete"

\* variant: the result of stage 3 is not looked at before the replacement
AfterStage_commit_unchecked(k, ok) ==
    IF k = 3 THEN "delete"
    ELSE IF ok THEN (IF k = 1 THEN "stage2" ELSE "stage3")
    ELSE "ret"

\* lines 249-263: the pipeline goes on to the next step only when the stage
\* returned True, and returns False otherwise
AfterStage(k, ok) ==
    IF ok THEN (IF k = 1 THEN "stage2" ELSE IF k = 2 THEN "stage3" ELSE "delete")
    ELSE "ret"

RunStage(k) ==
    /\ pc = StagePc(k)
    /\ \E o \in StageOutcomes, wrote \in BOOLEAN :
        /\ (o = "ok") => (wrote /\ StageInput(idx, k) # 0)
        /\ (o = "compile_fail") => ~wrote
        /\ wrote => StageInput(idx, k) # 0
        /\ Fault(IF o = "ok" THEN 0 ELSE 1)
        /\ engineCalls' = [engineCalls EXCEPT ![idx] = Append(@, [stage |-> k, out |-> o])]
        /\ temp' = IF wrote THEN [temp EXCEPT ![idx][k] = StageInput(idx, k)] ELSE temp
        /\ pc' = AfterStage(k, run_xslt_transformation(o))
        /\ ret' = IF pc' = "ret" THEN [ok |-> FALSE, stage |-> k, kind |-> o] ELSE ret
        /\ pre' = IF k = 3 /\ o = "ok" THEN [pre EXCEPT !.out = StageInput(idx, k)] ELSE pre
    /\ UNCHANGED <<content, artifact, cacheFile, edits, isoPresent, schDirExists>>
    /\ UNCHANGED <<runs, force, idx, success_count, batchResult, file_hash>>
    /\ UNCHANGED <<chk, outcome, order, saved, endSnap, hist>>
    /\ UNCHANGED <<sevVars, valVars, mainVars, nsVars, postVars, concVars>>

\* variant: the compile returns once the old stylesheet has been dealt with
AfterUnlink_stop(ok) == "ret"

\* lines 270-272: the existing compiled stylesheet is deleted; an OSError
\* leaves it in place and the compile returns False
AfterUnlink(ok) == IF ok THEN "copy" ELSE "ret"

DeleteOld ==
    /\ pc = "delete"
    /\ IF artifact[idx].st = "absent"
       THEN /\ pc' = "copy"
            /\ UNCHANGED <<artifact, ret, faults>>
       ELSE \E ok \in BOOLEAN :
            /\ pc' = AfterUnlink(ok)
            /\ IF ok
               THEN /\ artifact' = [artifact EXCEPT ![idx] = NoArtifact]
                    /\ ret' = ret
                    /\ faults' = faults
               ELSE /\ artifact' = artifact
                    /\ Fault(1)
                    /\ ret' = [ok |-> FALSE, stage |-> 4, kind |-> "unlink"]
    /\ UNCHANGED <<content, cacheFile, temp, edits, isoPresent, schDirExists>>
    /\ UNCHANGED <<runs, force, idx, success_count, batchResult, file_hash, pre>>
    /\ UNCHANGED ghostVars
    /\ UNCHANGED <<sevVars, valVars, mainVars, nsVars, postVars, concVars>>

\* lines 275-281: shutil.copy2 of the stage-3 intermediate. It can fail before
\* it creates the file, part-way through the bytes, or in copystat after the
\* bytes are written; a missing intermediate is an OSError as well.
CopyOutcomes == {"ok", "fail_none", "fail_partial", "fail_meta"}
CopyResult(o, from) ==
    IF o = "fail_none" \/ from = 0 THEN NoArtifact
    ELSE IF o = "fail_partial" THEN [src |-> from, st |-> "partial"]
    ELSE [src |-> from, st |-> "raw"]

Copy ==
    /\ pc = "copy"
    /\ \E o \in CopyOutcomes :
        /\ (temp[idx][3] = 0) => o = "fail_none"
        /\ Fault(IF o = "ok" THEN 0 ELSE 1)
        /\ artifact' = [artifact EXCEPT ![idx] = CopyResult(o, temp[idx][3])]
        /\ IF o = "ok"
           THEN pc' = "repair" /\ ret' = ret
           ELSE pc' = "ret" /\ ret' = [ok |-> FALSE, stage |-> 4, kind |-> o]
    /\ UNCHANGED <<content, cacheFile, temp, edits, isoPresent, schDirExists>>
    /\ UNCHANGED <<runs, force, idx, success_count, batchResult, file_hash, pre>>
    /\ UNCHANGED ghostVars
    /\ UNCHANGED <<sevVars, valVars, mainVars, nsVars, postVars, concVars>>

\* line 284: add_missing_xsd_namespace has gone over the committed file
Repair ==
    /\ pc = "repair"
    /\ artifact' = [artifact EXCEPT ![idx].st = "repaired"]
    /\ pc' = "hash"
    /\ UNCHANGED <<content, cacheFile, temp, faults, edits, isoPresent, schDirExists>>
    /\ UNCHANGED <<runs, force, idx, success_count, batchResult, file_hash, ret, pre>>
    /\ UNCHANGED ghostVars
    /\ UNCHANGED <<sevVars, valVars, mainVars, nsVars, postVars, concVars>>

\* line 287: the digest recorded is the digest of the source as it is now
HashSource ==
    /\ pc = "hash"
    /\ file_hash' = calculate_file_hash(idx)
    /\ pc' = "save"
    /\ UNCHANGED diskVars
    /\ UNCHANGED <<runs, force, idx, success_count, batchResult, ret, pre>>
    /\ UNCHANGED ghostVars
    /\ UNCHANGED <<sevVars, valVars, mainVars, nsVars, postVars, concVars>>

\* save_cache_info: open(..., 'w') truncates, then the digest line and the
\* timestamp line (0 here: nothing reads it) are written; an exception at any
\* point is a warning only.
SaveOutcomes == {"ok", "open_fail", "fail_empty", "fail_partial"}
save_cache_info(f, o, h) ==
    IF o = "open_fail" THEN f
    ELSE IF o = "fail_empty" THEN [exists |-> TRUE, readable |-> TRUE, lines |-> <<>>]
    ELSE IF o = "fail_partial" THEN [exists |-> TRUE, readable |-> TRUE, lines |-> <<h>>]
    ELSE [exists |-> TRUE, readable |-> TRUE, lines |-> <<h, 0>>]

SaveCache ==
    /\ pc = "save"
    /\ \E o \in SaveOutcomes :
        /\ Fault(IF o = "ok" THEN 0 ELSE 1)
        /\ cacheFile' = [cacheFile EXCEPT ![idx] = save_cache_info(@, o, file_hash)]
        /\ saved' = [saved EXCEPT ![idx] = (o = "ok")]
    /\ pc' = "cleanup"
    /\ UNCHANGED <<content, artifact, temp, edits, isoPresent, schDirExists>>
    /\ UNCHANGED <<runs, force, idx, success_count, batchResult, file_hash, ret, pre>>
    /\ UNCHANGED <<chk, outcome, order, engineCalls, endSnap, hist>>
    /\ UNCHANGED <<sevVars, valVars, mainVars, nsVars, postVars, concVars>>

\* variant: the intermediates are left where they are
unlink_temps_none(t, keep) == t

\* lines 293-300: the intermediates of a source after the loop that unlinks
\* them, keep being those whose unlink raised
unlink_temps(t, keep) == [k \in Stages |-> IF k \in keep THEN t[k] ELSE 0]

\* lines 293-302: each intermediate that exists is unlinked; a failed unlink
\* (keep) is a warning and the compile returns True
Cleanup ==
    /\ pc = "cleanup"
    /\ \E keep \in SUBSET {k \in Stages : temp[idx][k] # 0} :
        /\ Fault(Cardinality(keep))
        /\ temp' = [temp EXCEPT ![idx] = unlink_temps(@, keep)]
        /\ pre' = [pre EXCEPT !.undeleted = keep]
    /\ ret' = [ok |-> TRUE, stage |-> 0, kind |-> "none"]
    /\ pc' = "ret"
    /\ UNCHANGED <<content, artifact, cacheFile, edits, isoPresent, schDirExists>>
    /\ UNCHANGED <<runs, force, idx, success_count, batchResult, file_hash>>
    /\ UNCHANGED ghostVars
    /\ UNCHANGED <<sevVars, valVars, mainVars, nsVars, postVars, concVars>>

\* lines 391-396: a compile that returned True is counted (validate_output only
\* prints), one that returned False is not; the loop goes on either way
CountSuccess(sc, ok) == IF ok THEN sc + 1 ELSE sc

\* the texts validate_output can find in the compiled stylesheet: elements by
\* their opening
TemplateOpen == "<xsl:template"
OutputTexts == SeqsUpTo(RootOpens \cup {"<xsl:transform", TemplateOpen}, MaxElems)

\* validate_output: False when the file is not there, cannot be read, holds no
\* '<xsl:stylesheet' and no '<stylesheet', or holds no '<xsl:template'
validate_output(exists, readable, txt) ==
    /\ exists
    /\ readable
    /\ \E i \in DOMAIN txt : txt[i] \in RootOpens
    /\ Cardinality({i \in DOMAIN txt : txt[i] = TemplateOpen}) # 0

\* variant: a source whose output fails validate_output is not counted
counts_as_success_validated(transformed, output_valid) == transformed /\ output_valid

\* lines 391-394: what validate_output returned is not looked at
counts_as_success(transformed, output_valid) == transformed

AfterCompile ==
    /\ pc = "ret"
    /\ \E readable \in BOOLEAN, txt \in OutputTexts :
        LET output_valid == validate_output(artifact[idx].st # "absent", readable, txt)
            counted == counts_as_success(ret.ok, output_valid)
        IN
        /\ checked' = IF ~ret.ok THEN "none"
                       ELSE IF output_valid THEN "passed" ELSE "warned"
        /\ success_count' = CountSuccess(success_count, counted)
        /\ outcome' = [outcome EXCEPT ![idx] = IF counted THEN "compiled" ELSE "failed"]
    /\ idx' = idx + 1
    /\ pc' = "loop"
    /\ ret' = NoRet
    /\ pre' = NoPre
    /\ file_hash' = 0
    /\ chk' = NoChk
    /\ UNCHANGED <<diskVars, runs, force, batchResult>>
    /\ UNCHANGED <<order, engineCalls, saved, endSnap, hist>>
    /\ UNCHANGED <<sevVars, valVars, mainVars, nsVars, concVars>>

\* variant: the batch succeeds as soon as one source did
BatchSucceeded_some(sc, total) == sc > 0

\* lines 398-411
BatchSucceeded(sc, total) == sc = total

Summary ==
    /\ pc = "loop" /\ idx > NumSources
    /\ batchResult' = IF BatchSucceeded(success_count, NumSources) THEN "ok" ELSE "failed"
    /\ pc' = "done"
    /\ chk' = NoChk
    /\ endSnap' = [good |-> \A s \in Sources :
                               \/ outcome[s] = "skipped"
                               \/ outcome[s] = "compiled" /\ saved[s],
                   content |-> content]
    /\ UNCHANGED <<diskVars, compileVars, runs, force, idx, success_count>>
    /\ UNCHANGED <<outcome, order, engineCalls, saved, hist>>
    /\ checked' = "none"
    /\ UNCHANGED <<sevVars, valVars, mainVars, nsVars, concVars>>

\* ------------------------------------------------------------------ text
\* A string is the sequence of its characters.

\* str.lower(), character by character
LowerChar(c) ==
    CASE c = "A" -> "a" [] c = "B" -> "b" [] c = "C" -> "c" [] c = "D" -> "d"
      [] c = "E" -> "e" [] c = "F" -> "f" [] c = "G" -> "g" [] c = "H" -> "h"
      [] c = "I" -> "i" [] c = "J" -> "j" [] c = "K" -> "k" [] c = "L" -> "l"
      [] c = "M" -> "m" [] c = "N" -> "n" [] c = "O" -> "o" [] c = "P" -> "p"
      [] c = "Q" -> "q" [] c = "R" -> "r" [] c = "S" -> "s" [] c = "T" -> "t"
      [] c = "U" -> "u" [] c = "V" -> "v" [] c = "W" -> "w" [] c = "X" -> "x"
      [] c = "Y" -> "y" [] c = "Z" -> "z" [] OTHER -> c
Lower(str) == [i \in 1..Len(str) |-> LowerChar(str[i])]

\* Python's `word in text`: word occurs in text as a substring
Contains(text, word) ==
    \E i \in 1..(Len(text) - Len(word) + 1) :
        SubSeq(text, i, i + Len(word) - 1) = word

\* ------------------------------------------------------------------ the severity chain
SevFatal == <<"f", "a", "t", "a", "l">>
SevError == <<"e", "r", "r", "o", "r">>
SevWarning == <<"w", "a", "r", "n", "i", "n", "g">>
SevInfo == <<"i", "n", "f", "o">>
Severities == {SevFatal, SevError, SevWarning, SevInfo}

FatalKeywords ==
    { <<"f", "a", "t", "a", "l">>,
      <<"c", "r", "i", "t", "i", "c", "a", "l">>,
      <<"m", "u", "s", "t", " ", "n", "o", "t">>,
      <<"r", "e", "q", "u", "i", "r", "e", "d">> }
ErrorKeywords ==
    { <<"e", "r", "r", "o", "r">>,
      <<"i", "n", "v", "a", "l", "i", "d">>,
      <<"v", "i", "o", "l", "a", "t", "i", "o", "n">>,
      <<"s", "h", "a", "l", "l", " ", "n", "o", "t">> }
WarningKeywords ==
    { <<"w", "a", "r", "n", "i", "n", "g">>,
      <<"s", "h", "o", "u", "l", "d">>,
      <<"r", "e", "c", "o", "m", "m", "e", "n", "d">> }
InfoKeywords ==
    { <<"i", "n", "f", "o">>,
      <<"i", "n", "f", "o", "r", "m", "a", "t", "i", "o", "n">>,
      <<"n", "o", "t", "e">> }

\* any(word in message_lower for word in [...])
AnyIn(text, words) == \E w \in words : Contains(text, w)

\* variant: the message keywords are looked at before the role
determine_severity_keywords_first(role, message, test) ==
    LET role_lower == Lower(role)
        message_lower == Lower(message)
    IN  IF AnyIn(message_lower, FatalKeywords) THEN SevFatal
        ELSE IF AnyIn(message_lower, ErrorKeywords) THEN SevError
        ELSE IF AnyIn(message_lower, WarningKeywords) THEN SevWarning
        ELSE IF AnyIn(message_lower, InfoKeywords) THEN SevInfo
        ELSE IF role_lower \in {SevFatal, SevError, SevWarning, SevInfo} THEN role_lower
        ELSE SevError

\* variant: without a negation in the test the default is warning
determine_severity_test_decides(role, message, test) ==
    LET role_lower == Lower(role)
        message_lower == Lower(message)
        test_lower == Lower(test)
    IN  IF role_lower \in {SevFatal, SevError, SevWarning, SevInfo} THEN role_lower
        ELSE IF AnyIn(message_lower, FatalKeywords) THEN SevFatal
        ELSE IF AnyIn(message_lower, ErrorKeywords) THEN SevError
        ELSE IF AnyIn(message_lower, WarningKeywords) THEN SevWarning
        ELSE IF AnyIn(message_lower, InfoKeywords) THEN SevInfo
        ELSE IF Contains(test_lower, <<"n", "o", "t", "(">>)
                \/ Contains(test_lower, <<"f", "a", "l", "s", "e", "(", ")">>)
             THEN SevError
        ELSE SevWarning

\* _determine_severity(role, message, test)
determine_severity(role, message, test) ==
    LET role_lower == Lower(role)
        message_lower == Lower(message)
        test_lower == Lower(test)
    IN  IF role_lower \in {SevFatal, SevError, SevWarning, SevInfo} THEN role_lower
        ELSE IF AnyIn(message_lower, FatalKeywords) THEN SevFatal
        ELSE IF AnyIn(message_lower, ErrorKeywords) THEN SevError
        ELSE IF AnyIn(message_lower, WarningKeywords) THEN SevWarning
        ELSE IF AnyIn(message_lower, InfoKeywords) THEN SevInfo
        ELSE IF Contains(test_lower, <<"n", "o", "t", "(">>)
                \/ Contains(test_lower, <<"f", "a", "l", "s", "e", "(", ")">>)
             THEN SevError
        ELSE SevError

\* An attribute or a text node the failed-assert element does not have.
Absent == <<"<absent>">>

\* assertion.get('role', 'error')
RoleOf(f) == IF f.role = Absent THEN <<"e", "r", "r", "o", "r">> ELSE f.role
\* assertion.get('test', 'Unknown')
TestOf(f) == IF f.test = Absent THEN <<"U", "n", "k", "n", "o", "w", "n">> ELSE f.test
\* text_elem.text if text_elem is not None else 'No message', then
\* `message or 'No message'`
MessageOf(f) ==
    IF f.text = Absent \/ f.text = <<>>
    THEN <<"N", "o", " ", "m", "e", "s", "s", "a", "g", "e">>
    ELSE f.text

\* lines 254-262 of _analyze_svrl_output: the severity analyze gives a finding
FindingSeverity(f) == determine_severity(RoleOf(f), MessageOf(f), TestOf(f))

\* ---- the findings the severity chain is run on
Vocab ==
    { <<"R", "e", "q", "u", "i", "r", "e", "d">>,
      <<"f", "a", "t", "a", "l">>,
      <<"s", "h", "o", "u", "l", "d">>,
      <<"I", "n", "v", "a", "l", "i", "d">>,
      <<"n", "o", "t", "e">>,
      <<"m", "u", "s", "t">>,
      <<"s", "h", "a", "l", "l">>,
      <<"n", "o", "t">>,
      <<"v", "a", "l", "u", "e">>,
      <<"I", "N", "F", "O">> }

\* the messages of at most n words of Vocab, a space between two words
RECURSIVE MessagesUpTo(_)
MessagesUpTo(n) ==
    IF n = 0 THEN {<<>>}
    ELSE MessagesUpTo(n - 1) \cup
         { (IF m = <<>> THEN w ELSE m \o <<" ">> \o w) :
               m \in MessagesUpTo(n - 1), w \in Vocab }

RoleAttrs ==
    { Absent, <<>>,
      <<"w", "a", "r", "n", "i", "n", "g">>,
      <<"W", "A", "R", "N", "I", "N", "G">>,
      <<"E", "r", "r", "o", "r">>,
      <<"f", "a", "t", "a", "l">>,
      <<"I", "n", "f", "o">>,
      <<"c", "u", "s", "t", "o", "m">> }
TestAttrs ==
    { Absent, <<>>, <<"x">>,
      <<"n", "o", "t", "(", "x", ")">>,
      <<"f", "a", "l", "s", "e", "(", ")">> }
TextVals == {Absent} \cup MessagesUpTo(MaxWords)

Unclassified == <<>>

SevInit ==
    /\ sevIn \in [role : RoleAttrs, text : TextVals, test : TestAttrs]
    /\ sevOut = Unclassified

\* the analyzer classifies the finding
Classify ==
    /\ sevOut = Unclassified
    /\ sevOut' = FindingSeverity(sevIn)
    /\ UNCHANGED sevIn
    /\ UNCHANGED <<pipeVars, valVars, mainVars, nsVars, postVars, concVars>>

\* ------------------------------------------------------------------ the validator
\* ---- what the engine can return for one (document, stylesheet) run
\* the failed-assert elements an SVRL report of the model can hold
SampleFindings ==
    { [role |-> <<"w", "a", "r", "n", "i", "n", "g">>,
       text |-> <<"f", "a", "t", "a", "l">>, test |-> <<"x">>],
      [role |-> Absent,
       text |-> <<"R", "e", "q", "u", "i", "r", "e", "d">>,
       test |-> <<"n", "o", "t", "(", "x", ")">>],
      [role |-> <<"c", "u", "s", "t", "o", "m">>,
       text |-> <<"n", "o", "t", "e">>, test |-> <<"x">>],
      [role |-> <<"c", "u", "s", "t", "o", "m">>,
       text |-> <<"m", "u", "s", "t", " ", "n", "o", "t">>, test |-> Absent] }

\* the string transform_to_string returned: text ET.fromstring rejects, or a
\* report with fired-rule, failed-assert and successful-report elements
Unparsable == [parsable |-> FALSE, fired |-> 0, asserts |-> <<>>, reports |-> 0]
SvrlDocs ==
    {Unparsable} \cup
    [parsable : {TRUE}, fired : {0, 1},
     asserts : SeqsUpTo(SampleFindings, MaxFindings), reports : {0, 1}]

\* compile_stylesheet gives an executable, gives None or raises; "gone": the
\* stylesheet file is not there when get_compiled_xslt looks (line 72), as
\* while it is being rebuilt outside
CompileOutcomes == {"exe", "none", "raise", "gone"}
TransformOutcomes == {"svrl", "raise", "fault"}

\* ---- values
NoExe == [src |-> 0, st |-> "none"]
ZeroBreakdown == [sv \in Severities |-> 0]
NoResults ==
    [returned |-> FALSE, has_totals |-> FALSE, success |-> FALSE, error |-> "none",
     xslt_results |-> <<>>, total_fired_rules |-> 0,
     total_failed_assertions |-> 0, total_successful_reports |-> 0]
NoReport ==
    [written |-> FALSE, total_xslt_files_processed |-> 0,
     validation_success |-> FALSE, total_rules_fired |-> 0,
     total_failed_assertions |-> 0, total_successful_reports |-> 0,
     is_valid |-> FALSE, overall_severity_breakdown |-> ZeroBreakdown,
     schematron_results |-> <<>>]

\* the entry of vlog for a stylesheet get_compiled_xslt was not called for
NoCall ==
    [x |-> 0, called |-> FALSE, gone |-> FALSE, cached |-> NoExe,
     cached_after |-> NoExe, hits |-> 0, hits_after |-> 0, engine |-> 0,
     exe |-> NoExe, to |-> "none", parsable |-> TRUE, disk |-> NoArtifact]

\* lines 178-186: the result _validate_against_xslt starts from
NewRun(x) ==
    [xslt_file |-> x, success |-> FALSE, error |-> "none", has_counts |-> TRUE,
     fired_rules |-> 0, failed_assertions |-> 0, successful_reports |-> 0,
     has_breakdown |-> FALSE, severity_breakdown |-> ZeroBreakdown,
     error_details |-> <<>>]

\* variant: a stylesheet that does not exist is passed over as a successful run
NotFoundRun_passed(x) == [NewRun(x) EXCEPT !.success = TRUE]

\* lines 128-132: the entry for a stylesheet that does not exist; it has no counts
NotFoundRun(x) ==
    [NewRun(x) EXCEPT !.error = "not_found", !.has_counts = FALSE]

\* variant: every finding is counted as an error
Bucket_error(sev) == SevError

\* lines 264-268: the key of severity_breakdown a severity is counted under
Bucket(sev) == IF sev \in DOMAIN ZeroBreakdown THEN sev ELSE SevError

\* lines 270-283: one entry of error_details
ErrorDetail(f) ==
    [test |-> TestOf(f), message |-> f.text, severity |-> FindingSeverity(f),
     role |-> RoleOf(f)]

\* variant: a parse failure fails the run
analyze_svrl_output_strict(svrl, result) ==
    IF ~svrl.parsable THEN [result EXCEPT !.success = FALSE, !.error = "parse"]
    ELSE [result EXCEPT
            !.fired_rules = svrl.fired,
            !.failed_assertions = Len(svrl.asserts),
            !.successful_reports = svrl.reports,
            !.has_breakdown = TRUE,
            !.severity_breakdown =
                [sv \in Severities |->
                    Cardinality({i \in DOMAIN svrl.asserts :
                                    Bucket(FindingSeverity(svrl.asserts[i])) = sv})],
            !.error_details =
                [i \in DOMAIN svrl.asserts |-> ErrorDetail(svrl.asserts[i])]]

\* _analyze_svrl_output: a parse failure leaves the result as it was
analyze_svrl_output(svrl, result) ==
    IF ~svrl.parsable THEN result
    ELSE [result EXCEPT
            !.fired_rules = svrl.fired,
            !.failed_assertions = Len(svrl.asserts),
            !.successful_reports = svrl.reports,
            !.has_breakdown = TRUE,
            !.severity_breakdown =
                [sv \in Severities |->
                    Cardinality({i \in DOMAIN svrl.asserts :
                                    Bucket(FindingSeverity(svrl.asserts[i])) = sv})],
            !.error_details =
                [i \in DOMAIN svrl.asserts |-> ErrorDetail(svrl.asserts[i])]]

\* variant: the executable is compiled on every call
get_compiled_xslt_no_lookup(x, co) ==
    IF artifact[x].st = "absent" \/ co = "gone"
    THEN <<NoExe, xslt_cache, stats.cache_hits, 0>>
    ELSE IF co # "exe" THEN <<NoExe, xslt_cache, stats.cache_hits, 1>>
    ELSE <<artifact[x], [xslt_cache EXCEPT ![x] = artifact[x]], stats.cache_hits, 1>>

\* variant: what the engine returned is stored before it is looked at
get_compiled_xslt_store_first(x, co) ==
    IF xslt_cache[x] # NoExe
    THEN <<xslt_cache[x], xslt_cache, stats.cache_hits + 1, 0>>
    ELSE IF artifact[x].st = "absent" \/ co = "gone"
    THEN <<NoExe, xslt_cache, stats.cache_hits, 0>>
    ELSE IF co = "raise" THEN <<NoExe, xslt_cache, stats.cache_hits, 1>>
    ELSE IF co = "none"
    THEN <<NoExe, [xslt_cache EXCEPT ![x] = [src |-> 0, st |-> "broken"]],
           stats.cache_hits, 1>>
    ELSE <<artifact[x], [xslt_cache EXCEPT ![x] = artifact[x]], stats.cache_hits, 1>>

\* get_compiled_xslt: <<executable or NoExe, the cache after, cache_hits after,
\* the calls of compile_stylesheet made>>
get_compiled_xslt(x, co) ==
    IF xslt_cache[x] # NoExe
    THEN <<xslt_cache[x], xslt_cache, stats.cache_hits + 1, 0>>
    ELSE IF artifact[x].st = "absent" \/ co = "gone"
    THEN <<NoExe, xslt_cache, stats.cache_hits, 0>>
    ELSE IF co # "exe" THEN <<NoExe, xslt_cache, stats.cache_hits, 1>>
    ELSE <<artifact[x], [xslt_cache EXCEPT ![x] = artifact[x]], stats.cache_hits, 1>>

\* variant: the processor's exception flag is not looked at
validate_against_xslt_flag_unread(x, exe, to, svrl) ==
    IF exe = NoExe THEN [NewRun(x) EXCEPT !.error = "compile"]
    ELSE IF to = "raise" THEN [NewRun(x) EXCEPT !.error = "exception"]
    ELSE analyze_svrl_output(svrl, [NewRun(x) EXCEPT !.success = TRUE])

\* _validate_against_xslt, given the executable: the run it returns
validate_against_xslt(x, exe, to, svrl) ==
    IF exe = NoExe THEN [NewRun(x) EXCEPT !.error = "compile"]
    ELSE IF to = "raise" THEN [NewRun(x) EXCEPT !.error = "exception"]
    ELSE IF to = "fault" THEN [NewRun(x) EXCEPT !.error = "transform"]
    ELSE analyze_svrl_output(svrl, [NewRun(x) EXCEPT !.success = TRUE])

\* result.get(key, 0) of a run
RunFired(r) == IF r.has_counts THEN r.fired_rules ELSE 0
RunFailed(r) == IF r.has_counts THEN r.failed_assertions ELSE 0
RunReports(r) == IF r.has_counts THEN r.successful_reports ELSE 0

\* variant: the totals are those of the last successful run
AddRun_last(res, r) ==
    IF r.success
    THEN [res EXCEPT !.xslt_results = Append(@, r),
                     !.total_fired_rules = RunFired(r),
                     !.total_failed_assertions = RunFailed(r),
                     !.total_successful_reports = RunReports(r)]
    ELSE [res EXCEPT !.xslt_results = Append(@, r), !.success = FALSE]

\* the failed assertions of a list of runs
RECURSIVE SumFailed(_)
SumFailed(rs) ==
    IF rs = <<>> THEN 0 ELSE Head(rs).failed_assertions + SumFailed(Tail(rs))

\* lines 133-146: the run is appended and, when it succeeded, added to the totals
AddRun(res, r) ==
    IF r.success
    THEN [res EXCEPT !.xslt_results = Append(@, r),
                     !.total_fired_rules = @ + RunFired(r),
                     !.total_failed_assertions = @ + RunFailed(r),
                     !.total_successful_reports = @ + RunReports(r)]
    ELSE [res EXCEPT !.xslt_results = Append(@, r), !.success = FALSE]

\* variant: a document no rule fired for is not valid
is_valid_fired(res) ==
    res.success /\ res.total_failed_assertions = 0 /\ res.total_fired_rules > 0

\* variant: the verdict looks at the runs only
is_valid_runs_only(res) == res.success

\* line 338
is_valid(res) == res.success /\ res.total_failed_assertions = 0

\* lines 350-364: a failed run is passed over; xslt_result.get('severity_breakdown', {})
RECURSIVE SumBreakdown(_, _)
SumBreakdown(rs, sv) ==
    IF rs = <<>> THEN 0
    ELSE LET r == Head(rs) IN
         (IF r.success /\ r.has_breakdown THEN r.severity_breakdown[sv] ELSE 0)
         + SumBreakdown(Tail(rs), sv)

\* lines 366-394: the entry of a successful run
SchematronResult(r) ==
    [xslt_file |-> r.xslt_file, rules_fired |-> r.fired_rules,
     failed_assertions |-> r.failed_assertions,
     successful_reports |-> r.successful_reports,
     severity_breakdown |-> IF r.has_breakdown THEN r.severity_breakdown ELSE ZeroBreakdown,
     has_breakdown |-> r.has_breakdown,
     errors |-> r.error_details]

RECURSIVE SchematronResults(_)
SchematronResults(rs) ==
    IF rs = <<>> THEN <<>>
    ELSE IF Head(rs).success
         THEN <<SchematronResult(Head(rs))>> \o SchematronResults(Tail(rs))
         ELSE SchematronResults(Tail(rs))

\* _create_json_result: the json_result dictionary
create_json_result(res) ==
    [written |-> TRUE,
     total_xslt_files_processed |-> Len(res.xslt_results),
     validation_success |-> res.success,
     total_rules_fired |-> res.total_fired_rules,
     total_failed_assertions |-> res.total_failed_assertions,
     total_successful_reports |-> res.total_successful_reports,
     is_valid |-> is_valid(res),
     overall_severity_breakdown |->
         [sv \in Severities |-> SumBreakdown(res.xslt_results, sv)],
     schematron_results |-> SchematronResults(res.xslt_results)]

\* validate_xml_file, lines 104-124: a document that does not exist is answered
\* at once; otherwise the result dictionary is set up
BeginValidate ==
    /\ vpc \in {"idle", "returned"}
    /\ docs < MaxDocs
    /\ docs' = docs + 1
    /\ report' = NoReport
    /\ vlog' = <<>>
    /\ prevFault' = (prevFault \/ \E i \in DOMAIN vlog : vlog[i].to \in {"raise", "fault"})
    /\ vidx' = 1
    /\ \E exists \in BOOLEAN :
        IF exists
        THEN /\ results' = [NoResults EXCEPT !.has_totals = TRUE, !.success = TRUE]
             /\ vpc' = "rules"
        ELSE /\ results' = [NoResults EXCEPT !.returned = TRUE, !.error = "xml_not_found"]
             /\ vpc' = "returned"
    /\ UNCHANGED <<xslt_cache, stats, xsl_files, compiles, failedGet, answered>>
    /\ UNCHANGED <<pipeVars, sevVars, mainVars, nsVars, postVars, concVars>>

\* lines 126-146: the next stylesheet of xsl_files
ValidateRule ==
    /\ vpc = "rules" /\ vidx <= Len(xsl_files)
    /\ LET x == xsl_files[vidx] IN
       IF artifact[x].st = "absent"
       THEN /\ results' = AddRun(results, NotFoundRun(x))
            /\ vlog' = Append(vlog, [NoCall EXCEPT !.x = x])
            /\ UNCHANGED <<xslt_cache, stats, compiles, failedGet, answered, prevFault>>
       ELSE \E co \in CompileOutcomes, to \in TransformOutcomes, svrl \in SvrlDocs :
            LET got == get_compiled_xslt(x, co)
                ran == got[1] # NoExe
            IN
            /\ results' = AddRun(results, validate_against_xslt(x, got[1], to, svrl))
            /\ xslt_cache' = got[2]
            /\ stats' = [stats EXCEPT !.cache_hits = got[3]]
            /\ vlog' = Append(vlog,
                    [x |-> x, called |-> TRUE,
                     gone |-> (xslt_cache[x] = NoExe /\ co = "gone"),
                     cached |-> xslt_cache[x], cached_after |-> got[2][x],
                     hits |-> stats.cache_hits, hits_after |-> got[3],
                     engine |-> got[4], exe |-> got[1],
                     to |-> IF ran THEN to ELSE "none",
                     parsable |-> IF ran /\ to = "svrl" THEN svrl.parsable ELSE TRUE,
                     disk |-> artifact[x]])
            /\ compiles' = [compiles EXCEPT ![x] =
                                IF got[4] > 0 /\ ran THEN @ + 1 ELSE @]
            /\ failedGet' = [failedGet EXCEPT ![x] = @ \/ ~ran]
            /\ answered' = IF ran /\ got[4] = 0 THEN answered + 1 ELSE answered
            /\ prevFault' = prevFault
    /\ vidx' = vidx + 1
    /\ UNCHANGED <<xsl_files, vpc, docs, report>>
    /\ UNCHANGED <<pipeVars, sevVars, mainVars, nsVars, postVars, concVars>>

\* lines 148-171: the statistics, the JSON result, and the return
FinishValidate ==
    /\ vpc = "rules" /\ vidx > Len(xsl_files)
    /\ stats' = [stats EXCEPT !.total_validations = @ + 1]
    /\ report' = create_json_result(results)
    /\ results' = [results EXCEPT !.returned = TRUE]
    /\ vpc' = "returned"
    /\ UNCHANGED <<xslt_cache, xsl_files, vidx, docs, valGhost>>
    /\ UNCHANGED <<pipeVars, sevVars, mainVars, nsVars, postVars, concVars>>

\* The compiled stylesheets are rebuilt outside the validator between two
\* documents: one is replaced by the compile of a newer rule source, or removed.
RebuildOutside ==
    /\ vpc \in {"idle", "returned"}
    /\ edits < MaxEdits
    /\ edits' = edits + 1
    /\ \E s \in Sources :
        \/ /\ artifact[s].src # NumVersions
           /\ artifact' = [artifact EXCEPT ![s] = [src |-> NumVersions, st |-> "repaired"]]
           /\ content' = [content EXCEPT ![s] = NumVersions]
        \/ /\ artifact[s] # NoArtifact
           /\ artifact' = [artifact EXCEPT ![s] = NoArtifact]
           /\ content' = content
    /\ UNCHANGED <<cacheFile, temp, faults, isoPresent, schDirExists>>
    /\ UNCHANGED <<batchVars, compileVars, ghostVars>>
    /\ UNCHANGED <<sevVars, valVars, mainVars, nsVars, postVars, concVars>>

\* ------------------------------------------------------------------ namespace repair
\* The text of a compiled stylesheet is a sequence of tokens: the opening of a
\* tag by name, an attribute, the ">" that ends a tag.
XsdMarker == "xmlns:xsd="
Tokens == RootOpens \cup {"<xsl:transform", XsdMarker, "xmlns:xs=", ">"}
Texts == SeqsUpTo(Tokens, MaxTokens)

MinOf(S) == CHOOSE m \in S : \A n \in S : m <= n

\* 'xmlns:xsd=' in content
HasMarker(txt) == \E i \in DOMAIN txt : txt[i] = XsdMarker

\* re.search(r'(<(?:xsl:)?stylesheet[^>]*?)>', content): <<first, last>> of the
\* leftmost match, from the opening of a stylesheet tag to the first ">" after
\* it; <<>> without a match
RootMatch(txt) ==
    LET closes(i) == {j \in DOMAIN txt : j > i /\ txt[j] = ">"}
        starts == {i \in DOMAIN txt : txt[i] \in RootOpens /\ closes(i) # {}}
    IN  IF starts = {} THEN <<>>
        ELSE <<MinOf(starts), MinOf(closes(MinOf(starts)))>>

\* where old occurs in txt
Occurrences(txt, old) ==
    {k \in 1..(Len(txt) - Len(old) + 1) :
        SubSeq(txt, k, k + Len(old) - 1) = old}

\* content.replace(old, new, 1)
ReplaceFirst(txt, old, new) ==
    IF Occurrences(txt, old) = {} THEN txt
    ELSE LET k == MinOf(Occurrences(txt, old)) IN
         SubSeq(txt, 1, k - 1) \o new
            \o SubSeq(txt, k + Len(old), Len(txt))

\* content.replace(old, new)
RECURSIVE ReplaceEvery(_, _, _)
ReplaceEvery(txt, old, new) ==
    IF Occurrences(txt, old) = {} THEN txt
    ELSE LET k == MinOf(Occurrences(txt, old)) IN
         SubSeq(txt, 1, k - 1) \o new
            \o ReplaceEvery(SubSeq(txt, k + Len(old), Len(txt)), old, new)

\* reading or writing the file can fail: the read, the open for writing (the
\* file is left as it was), or the write after the open has truncated the file
RepairIo == {"ok", "read_fail", "open_fail", "write_fail"}

\* variant: every occurrence of the tag is replaced
add_missing_xsd_namespace_every(txt, io) ==
    IF io = "read_fail" THEN <<txt, FALSE>>
    ELSE IF HasMarker(txt) THEN <<txt, FALSE>>
    ELSE IF RootMatch(txt) = <<>> THEN <<txt, FALSE>>
    ELSE LET m == RootMatch(txt)
             old_tag == SubSeq(txt, m[1], m[2])
             new_tag == SubSeq(old_tag, 1, Len(old_tag) - 1) \o <<XsdMarker, ">">>
         IN  IF io = "open_fail" THEN <<txt, FALSE>>
             ELSE IF io = "write_fail" THEN <<<<>>, FALSE>>
             ELSE <<ReplaceEvery(txt, old_tag, new_tag), TRUE>>

\* add_missing_xsd_namespace: <<the text of the file after, the value returned>>
add_missing_xsd_namespace(txt, io) ==
    IF io = "read_fail" THEN <<txt, FALSE>>
    ELSE IF HasMarker(txt) THEN <<txt, FALSE>>
    ELSE IF RootMatch(txt) = <<>> THEN <<txt, FALSE>>
    ELSE LET m == RootMatch(txt)
             old_tag == SubSeq(txt, m[1], m[2])
             new_tag == SubSeq(old_tag, 1, Len(old_tag) - 1) \o <<XsdMarker, ">">>
         IN  IF io = "open_fail" THEN <<txt, FALSE>>
             ELSE IF io = "write_fail" THEN <<<<>>, FALSE>>
             ELSE <<ReplaceFirst(txt, old_tag, new_tag), TRUE>>

\* the stylesheet no pass has been made over
NsIdle == nsText = <<>> /\ nsLog = <<>>

\* transform_schematron_file, lines 278-284: the stage-3 output has been copied
\* to the output path, whatever text the engine produced
NsInit == nsText \in Texts /\ nsLog = <<>>

\* line 284 (the first pass; the compile goes on to return True whatever the
\* pass returned), and any later pass over the same file
RepairPass ==
    /\ Len(nsLog) < MaxPasses
    /\ \E io \in RepairIo :
        LET r == add_missing_xsd_namespace(nsText, io) IN
        /\ nsText' = r[1]
        /\ nsLog' = Append(nsLog, [before |-> nsText, after |-> r[1],
                                   changed |-> r[2], io |-> io])
    /\ UNCHANGED <<pipeVars, sevVars, valVars, mainVars, postVars, concVars>>

\* ------------------------------------------------------------------ main
\* list(xslt_dir.glob("*.xsl")): the compiled stylesheets that are on disk
Glob == SelectSeq([i \in 1..NumSources |-> i], LAMBDA s : artifact[s].st # "absent")

\* ensure_xslt_generated returns what transform_all_schematron_files returned
ensure_xslt_generated == batchResult = "ok"

\* what main reads of a result dictionary, with (runs_failed, failed_sum) the
\* number of its runs that failed and the failed assertions of its runs
DocSummary(res) ==
    [success |-> res.success,
     total_failed_assertions |-> res.total_failed_assertions,
     validated |-> res.has_totals,
     runs_failed |-> Cardinality({i \in DOMAIN res.xslt_results :
                                    ~res.xslt_results[i].success}),
     failed_sum |-> SumFailed(res.xslt_results)]

\* r['success'] and r['total_failed_assertions'] == 0
DocValid(r) == r.success /\ r.total_failed_assertions = 0

\* variant: one valid document is enough
exit_status_any(rs) == IF \E i \in DOMAIN rs : DocValid(rs[i]) THEN 0 ELSE 1

\* lines 561 and 572-573: sys.exit(0 if all(...) else 1)
exit_status(rs) == IF \A i \in DOMAIN rs : DocValid(rs[i]) THEN 0 ELSE 1

\* main calls ensure_xslt_generated, which runs the batch compilation
MainBuild ==
    /\ mpc = "start" /\ pc = "idle"
    /\ StartBatch

\* lines 546-555 and validate_samples, lines 420-445: the batch has returned.
\* Single-file mode exits with 1 when it failed or left no stylesheet; in batch
\* mode validate_samples returns [] then, and when there is no document.
MainAfterBuild ==
    /\ mpc = "start" /\ pc = "done"
    /\ IF ~ensure_xslt_generated \/ Glob = <<>> \/ nDocs = 0
       THEN /\ mpc' = "exit"
            /\ exit_code' = IF mode = "single" THEN 1 ELSE exit_status(<<>>)
            /\ xsl_files' = xsl_files
       ELSE /\ mpc' = "docs"
            /\ exit_code' = exit_code
            /\ xsl_files' = Glob
    /\ UNCHANGED <<xslt_cache, stats, vpc, vidx, docs, results, report, valGhost>>
    /\ UNCHANGED <<mode, nDocs, all_results>>
    /\ UNCHANGED <<pipeVars, sevVars, nsVars, postVars, concVars>>

\* line 558, and validate_samples line 455: validate_xml_file is called for the
\* next document
MainValidate ==
    /\ mpc = "docs" /\ vpc = "idle"
    /\ Len(all_results) < nDocs
    /\ BeginValidate

\* validate_samples line 456: all_results.append(results)
Collect ==
    /\ mpc = "docs" /\ vpc = "returned"
    /\ all_results' = Append(all_results, DocSummary(results))
    /\ vpc' = "idle"
    /\ UNCHANGED <<xslt_cache, stats, xsl_files, vidx, docs, results, report, valGhost>>
    /\ UNCHANGED <<mpc, mode, nDocs, exit_code>>
    /\ UNCHANGED <<pipeVars, sevVars, nsVars, postVars, concVars>>

\* lines 561 and 571-573
MainExit ==
    /\ mpc = "docs" /\ vpc = "idle"
    /\ Len(all_results) = nDocs
    /\ exit_code' = exit_status(all_results)
    /\ mpc' = "exit"
    /\ UNCHANGED <<mode, nDocs, all_results>>
    /\ UNCHANGED <<pipeVars, sevVars, valVars, nsVars, postVars, concVars>>

\* ------------------------------------------------------------------ a validator used as a library
\* validate_samples, line 420: ensure_xslt_generated runs the batch compilation,
\* with or without force_rebuild, on a validator that may have validated before
SamplesBuild ==
    /\ vpc = "idle"
    /\ StartBatch

\* validate_samples, line 463, or validate_xml_file, line 171: the call has
\* returned and its locals are gone; the instance keeps xslt_cache and stats
SamplesReturn ==
    /\ vpc = "returned"
    /\ vpc' = "idle"
    /\ results' = NoResults
    /\ report' = NoReport
    /\ vlog' = <<>>
    /\ vidx' = 1
    /\ prevFault' = (prevFault \/ \E i \in DOMAIN vlog : vlog[i].to \in {"raise", "fault"})
    /\ UNCHANGED <<xslt_cache, stats, xsl_files, docs, compiles, failedGet, answered>>
    /\ UNCHANGED <<pipeVars, sevVars, mainVars, nsVars, postVars, concVars>>

\* a rule source is edited between two calls on the validator
SamplesEdit ==
    /\ vpc = "idle"
    /\ EditBetweenRuns

\* validate_samples, lines 420-455, or validate_xml_file called from outside:
\* the next document is validated once the batch has succeeded
SamplesValidate ==
    /\ pc = "done" /\ ensure_xslt_generated
    /\ xsl_files = Glob
    /\ BeginValidate

\* ------------------------------------------------------------------ two runs at once
\* Two processes call transform_schematron_file for the same rule source. They
\* share the source, its three intermediates under .temp (lines 242-244), the
\* compiled stylesheet and the cache file; the engine and the file system fail
\* only on a file that is not there.
ConcSrc == MinOf(Sources)
Other(p) == CHOOSE q \in Procs : q # p
UnderWay(p) == cpc[p] \notin {"off", "done"}

\* what a step of run p leaves alone, and the history of the two runs
ConcFrame(p) ==
    /\ overlap' = (overlap \/ UnderWay(Other(p)))
    /\ UNCHANGED <<content, faults, edits, isoPresent, schDirExists>>
    /\ UNCHANGED <<batchVars, compileVars, ghostVars>>
    /\ UNCHANGED <<sevVars, valVars, mainVars, nsVars, postVars>>

\* run p returns False from step k
ConcFailed(p, k, why) ==
    /\ cpc' = [cpc EXCEPT ![p] = "done"]
    /\ cres' = [cres EXCEPT ![p] = [ok |-> FALSE, stage |-> k, kind |-> why]]

\* lines 235-244
ConcBegin(p) ==
    /\ cpc[p] = "off"
    /\ cpc' = [cpc EXCEPT ![p] = "stage1"]
    /\ UNCHANGED <<artifact, cacheFile, temp, cres, chash>>
    /\ ConcFrame(p)

\* lines 249-263: stage k; the engine fails when the file it is to read has
\* been unlinked by the other run
ConcStage(p, k) ==
    /\ cpc[p] = StagePc(k)
    /\ LET from == StageInput(ConcSrc, k)
           next == AfterStage(k, run_xslt_transformation(IF from # 0 THEN "ok" ELSE "fault"))
       IN
       /\ temp' = IF from # 0 THEN [temp EXCEPT ![ConcSrc][k] = from] ELSE temp
       /\ IF next = "ret"
          THEN ConcFailed(p, k, "fault")
          ELSE cpc' = [cpc EXCEPT ![p] = next] /\ cres' = cres
    /\ UNCHANGED <<artifact, cacheFile, chash>>
    /\ ConcFrame(p)

\* line 270: output_xsl_path.exists()
ConcExists(p) ==
    /\ cpc[p] = "delete"
    /\ cpc' = [cpc EXCEPT ![p] =
                  IF artifact[ConcSrc].st = "absent" THEN "copy" ELSE "unlink"]
    /\ UNCHANGED <<artifact, cacheFile, temp, cres, chash>>
    /\ ConcFrame(p)

\* line 272: unlink() raises FileNotFoundError, an OSError, when the other run
\* has unlinked the file since line 270
ConcUnlink(p) ==
    /\ cpc[p] = "unlink"
    /\ LET next == AfterUnlink(artifact[ConcSrc].st # "absent") IN
       /\ artifact' = [artifact EXCEPT ![ConcSrc] = NoArtifact]
       /\ IF next = "ret"
          THEN ConcFailed(p, 4, "unlink")
          ELSE cpc' = [cpc EXCEPT ![p] = next] /\ cres' = cres
    /\ UNCHANGED <<cacheFile, temp, chash>>
    /\ ConcFrame(p)

\* lines 278-281: shutil.copy2 raises when the stage-3 intermediate is not
\* there, and leaves the output path as it is
ConcCopy(p) ==
    /\ cpc[p] = "copy"
    /\ IF temp[ConcSrc][3] = 0
       THEN /\ artifact' = artifact
            /\ ConcFailed(p, 4, "fail_none")
       ELSE /\ artifact' = [artifact EXCEPT ![ConcSrc] = CopyResult("ok", temp[ConcSrc][3])]
            /\ cpc' = [cpc EXCEPT ![p] = "repair"]
            /\ cres' = cres
    /\ UNCHANGED <<cacheFile, temp, chash>>
    /\ ConcFrame(p)

\* line 284: add_missing_xsd_namespace catches the error of a file that is not
\* there
ConcRepair(p) ==
    /\ cpc[p] = "repair"
    /\ artifact' = IF artifact[ConcSrc].st = "absent" THEN artifact
                   ELSE [artifact EXCEPT ![ConcSrc].st = "repaired"]
    /\ cpc' = [cpc EXCEPT ![p] = "hash"]
    /\ UNCHANGED <<cacheFile, temp, cres, chash>>
    /\ ConcFrame(p)

\* line 287
ConcHash(p) ==
    /\ cpc[p] = "hash"
    /\ chash' = [chash EXCEPT ![p] = calculate_file_hash(ConcSrc)]
    /\ cpc' = [cpc EXCEPT ![p] = "save"]
    /\ UNCHANGED <<artifact, cacheFile, temp, cres>>
    /\ ConcFrame(p)

\* line 288
ConcSave(p) ==
    /\ cpc[p] = "save"
    /\ cacheFile' = [cacheFile EXCEPT ![ConcSrc] = save_cache_info(@, "ok", chash[p])]
    /\ cpc' = [cpc EXCEPT ![p] = "cleanup"]
    /\ UNCHANGED <<artifact, temp, cres, chash>>
    /\ ConcFrame(p)

\* lines 293-302: the intermediates that are there are unlinked and the run
\* returns True
ConcCleanup(p) ==
    /\ cpc[p] = "cleanup"
    /\ temp' = [temp EXCEPT ![ConcSrc] = unlink_temps(@, {})]
    /\ cpc' = [cpc EXCEPT ![p] = "done"]
    /\ cres' = [cres EXCEPT ![p] = [ok |-> TRUE, stage |-> 0, kind |-> "none"]]
    /\ UNCHANGED <<artifact, cacheFile, chash>>
    /\ ConcFrame(p)

\* ------------------------------------------------------------------ specifications

\* a finding no severity chain has run on
SevIdle ==
    /\ sevIn = [role |-> Absent, text |-> Absent, test |-> Absent]
    /\ sevOut = Unclassified

\* an installation with the three ISO stylesheets and the rule-source directory
PipeReady == PipeInit /\ isoPresent = Stages /\ schDirExists = TRUE

\* a validator that has validated nothing
ValIdle ==
    /\ xslt_cache = [s \in Sources |-> NoExe]
    /\ stats = [total_validations |-> 0, cache_hits |-> 0]
    /\ xsl_files = [i \in 1..NumSources |-> i]
    /\ vpc = "idle" /\ vidx = 1 /\ docs = 0
    /\ results = NoResults
    /\ report = NoReport
    /\ vlog = <<>>
    /\ compiles = [s \in Sources |-> 0]
    /\ failedGet = [s \in Sources |-> FALSE]
    /\ answered = 0
    /\ prevFault = FALSE

\* validate_output has not been called
PostIdle == checked = "none"

\* no run of the pipeline outside the batch
ConcIdle ==
    /\ cpc = [p \in Procs |-> "off"]
    /\ cres = [p \in Procs |-> NoRet]
    /\ chash = [p \in Procs |-> 0]
    /\ overlap = FALSE

\* main has not been entered
MainIdle ==
    /\ mpc = "off" /\ mode = "none" /\ nDocs = 0
    /\ all_results = <<>> /\ exit_code = -1

Init == PipeInit /\ SevIdle /\ ValIdle /\ MainIdle /\ NsIdle /\ PostIdle /\ ConcIdle

Next ==
    \/ StartBatch
    \/ Skip
    \/ BeginCompile
    \/ \E k \in Stages : RunStage(k)
    \/ DeleteOld
    \/ Copy
    \/ Repair
    \/ HashSource
    \/ SaveCache
    \/ Cleanup
    \/ AfterCompile
    \/ Summary
    \/ EditBetweenRuns

Spec == Init /\ [][Next]_vars

\* the batches with the environment acting at any step
NextEnv ==
    \/ StartBatch
    \/ Skip
    \/ BeginCompile
    \/ \E k \in Stages : RunStage(k)
    \/ DeleteOld
    \/ Copy
    \/ Repair
    \/ HashSource
    \/ SaveCache
    \/ Cleanup
    \/ AfterCompile
    \/ Summary
    \/ EditBetweenRuns
    \/ EditDuringRun
    \/ DamageCache

InitEnv == PipeReady /\ SevIdle /\ ValIdle /\ MainIdle /\ NsIdle /\ PostIdle /\ ConcIdle
SpecEnv == InitEnv /\ [][NextEnv]_vars

\* the severity chain on every finding of the bounded set
InitSev == PipeReady /\ SevInit /\ ValIdle /\ MainIdle /\ NsIdle /\ PostIdle /\ ConcIdle
NextSev == Classify
SpecSev == InitSev /\ [][NextSev]_vars

\* the validator on the disk a batch has left: each source has its compiled
\* stylesheet, or none (its compile failed)
PipeAfterBatch ==
    /\ content = [s \in Sources |-> 1]
    /\ artifact \in [Sources -> {NoArtifact, [src |-> 1, st |-> "repaired"]}]
    /\ cacheFile = [s \in Sources |-> NoCache]
    /\ temp = [s \in Sources |-> NoTemps]
    /\ faults = 0 /\ edits = 0
    /\ isoPresent = Stages /\ schDirExists = TRUE
    /\ pc = "idle" /\ runs = 0 /\ force = FALSE /\ idx = 1
    /\ success_count = 0 /\ batchResult = "none"
    /\ file_hash = 0 /\ ret = NoRet /\ pre = NoPre
    /\ chk = NoChk
    /\ outcome = [s \in Sources |-> "pending"]
    /\ order = <<>>
    /\ engineCalls = [s \in Sources |-> <<>>]
    /\ saved = [s \in Sources |-> FALSE]
    /\ endSnap = [good |-> FALSE, content |-> [s \in Sources |-> 1]]
    /\ hist = [prevGood |-> FALSE, prevContent |-> [s \in Sources |-> 1],
               startContent |-> [s \in Sources |-> 1]]

InitVal == PipeAfterBatch /\ SevIdle /\ ValIdle /\ MainIdle /\ NsIdle /\ PostIdle /\ ConcIdle
NextVal ==
    \/ BeginValidate
    \/ ValidateRule
    \/ FinishValidate
    \/ RebuildOutside
SpecVal == InitVal /\ [][NextVal]_vars

\* main, from its start to sys.exit: one document with --single-file, the
\* documents of the samples directory otherwise
MainReady ==
    /\ mpc = "start"
    /\ mode \in {"single", "batch"}
    /\ nDocs \in IF mode = "single" THEN {1} ELSE 0..MaxDocs
    /\ all_results = <<>> /\ exit_code = -1

\* the disk main finds: nothing built yet, or every rule source built by an
\* earlier run of the program; any of the ISO stylesheets and the rule-source
\* directory can be missing
PipeBuiltOrNot ==
    /\ content = [s \in Sources |-> 1]
    /\ \E built \in BOOLEAN :
        /\ artifact = [s \in Sources |->
                          IF built THEN [src |-> 1, st |-> "repaired"] ELSE NoArtifact]
        /\ cacheFile = [s \in Sources |->
                          IF built
                          THEN [exists |-> TRUE, readable |-> TRUE, lines |-> <<Digest(1), 0>>]
                          ELSE NoCache]
    /\ temp = [s \in Sources |-> NoTemps]
    /\ faults = 0 /\ edits = 0
    /\ isoPresent \in SUBSET Stages /\ schDirExists \in BOOLEAN
    /\ pc = "idle" /\ runs = 0 /\ force = FALSE /\ idx = 1
    /\ success_count = 0 /\ batchResult = "none"
    /\ file_hash = 0 /\ ret = NoRet /\ pre = NoPre
    /\ chk = NoChk
    /\ outcome = [s \in Sources |-> "pending"]
    /\ order = <<>>
    /\ engineCalls = [s \in Sources |-> <<>>]
    /\ saved = [s \in Sources |-> FALSE]
    /\ endSnap = [good |-> FALSE, content |-> [s \in Sources |-> 1]]
    /\ hist = [prevGood |-> FALSE, prevContent |-> [s \in Sources |-> 1],
               startContent |-> [s \in Sources |-> 1]]

InitMain == PipeBuiltOrNot /\ SevIdle /\ ValIdle /\ MainReady /\ NsIdle /\ PostIdle /\ ConcIdle
NextMain ==
    \/ MainBuild
    \/ Skip
    \/ BeginCompile
    \/ \E k \in Stages : RunStage(k)
    \/ DeleteOld
    \/ Copy
    \/ Repair
    \/ HashSource
    \/ SaveCache
    \/ Cleanup
    \/ AfterCompile
    \/ Summary
    \/ MainAfterBuild
    \/ MainValidate
    \/ ValidateRule
    \/ FinishValidate
    \/ Collect
    \/ MainExit
SpecMain == InitMain /\ [][NextMain]_vars

\* one validator instance over several validate_samples calls, the rule sources
\* edited between two calls
\* an installation with nothing built, on which the engine and the file system
\* do not fail
PipeQuiet ==
    /\ content = [s \in Sources |-> 1]
    /\ artifact = [s \in Sources |-> NoArtifact]
    /\ cacheFile = [s \in Sources |-> NoCache]
    /\ temp = [s \in Sources |-> NoTemps]
    /\ faults = MaxFaults /\ edits = 0
    /\ isoPresent = Stages /\ schDirExists = TRUE
    /\ pc = "idle" /\ runs = 0 /\ force = FALSE /\ idx = 1
    /\ success_count = 0 /\ batchResult = "none"
    /\ file_hash = 0 /\ ret = NoRet /\ pre = NoPre
    /\ chk = NoChk
    /\ outcome = [s \in Sources |-> "pending"]
    /\ order = <<>>
    /\ engineCalls = [s \in Sources |-> <<>>]
    /\ saved = [s \in Sources |-> FALSE]
    /\ endSnap = [good |-> FALSE, content |-> [s \in Sources |-> 1]]
    /\ hist = [prevGood |-> FALSE, prevContent |-> [s \in Sources |-> 1],
               startContent |-> [s \in Sources |-> 1]]

InitLib == PipeQuiet /\ SevIdle /\ ValIdle /\ MainIdle /\ NsIdle /\ PostIdle /\ ConcIdle
NextLib ==
    \/ SamplesBuild
    \/ Skip
    \/ BeginCompile
    \/ \E k \in Stages : RunStage(k)
    \/ DeleteOld
    \/ Copy
    \/ Repair
    \/ HashSource
    \/ SaveCache
    \/ Cleanup
    \/ AfterCompile
    \/ Summary
    \/ SamplesEdit
    \/ SamplesValidate
    \/ ValidateRule
    \/ FinishValidate
    \/ SamplesReturn
SpecLib == InitLib /\ [][NextLib]_vars

\* two runs of the pipeline on one rule source, their steps in any order
InitConc == PipeReady /\ SevIdle /\ ValIdle /\ MainIdle /\ NsIdle /\ PostIdle /\ ConcIdle
NextConc ==
    \/ \E p \in Procs : ConcBegin(p)
    \/ \E p \in Procs, k \in Stages : ConcStage(p, k)
    \/ \E p \in Procs : ConcExists(p)
    \/ \E p \in Procs : ConcUnlink(p)
    \/ \E p \in Procs : ConcCopy(p)
    \/ \E p \in Procs : ConcRepair(p)
    \/ \E p \in Procs : ConcHash(p)
    \/ \E p \in Procs : ConcSave(p)
    \/ \E p \in Procs : ConcCleanup(p)
SpecConc == InitConc /\ [][NextConc]_vars

\* add_missing_xsd_namespace on every text of the bounded set
InitNs == PipeReady /\ SevIdle /\ ValIdle /\ MainIdle /\ NsInit /\ PostIdle /\ ConcIdle
NextNs == RepairPass
SpecNs == InitNs /\ [][NextNs]_vars

\* ------------------------------------------------------------------ properties
\* the digest of the CacheRecord of s; 0 when the cache file holds no readable
\* record of both fields
RecordDigest(s) == dict_get_hash(get_cache_info(s))

\* C1: in every reachable state, also when a rule source is edited between the
\* steps of a compile, a CacheRecord whose digest is the digest of the source's
\* current content, with the compiled artifact on disk, means that the artifact
\* was compiled from the current content.
C1_CacheValidity ==
    \A s \in Sources :
        (artifact[s].st # "absent" /\ RecordDigest(s) = Digest(content[s]))
            => artifact[s].src = content[s]

\* a cache file that holds a readable record with both fields
HasRecord(f) == f.exists /\ f.readable /\ Len(f.lines) = 2

\* C2: needsRebuild answers true exactly when the artifact is missing, or there
\* is no readable CacheRecord with both fields, or the stored digest differs from
\* the digest of the current content; and the call changes neither the artifact
\* nor the cache file.
C2_NeedsRebuild ==
    /\ [](chk.s # 0 =>
            (chk.need <=> \/ chk.artifact.st = "absent"
                          \/ ~HasRecord(chk.cache)
                          \/ chk.cache.lines[1] # Digest(chk.content)))
    /\ [][(chk' # chk /\ chk'.s # 0) =>
            (artifact' = artifact /\ cacheFile' = cacheFile)]_vars

\* C2 witness: a check that answered false, on a complete record
C2_Witness ==
    /\ chk.s # 0 /\ ~chk.need
    /\ HasRecord(chk.cache) /\ chk.artifact.st = "repaired"

\* the content of s differs between the end of the batch before and the start
\* of this one
Changed(s) == hist.startContent[s] # hist.prevContent[s]

\* C3: in a batch without force-rebuild that follows a batch in which every
\* source ended skipped or compiled with its cache record written, the engine is
\* called for exactly the sources whose content changed in between.
C3_Idempotence ==
    (pc # "idle" /\ hist.prevGood /\ ~force) =>
        /\ \A s \in Sources : engineCalls[s] # <<>> => Changed(s)
        /\ pc = "done" => \A s \in Sources : Changed(s) => engineCalls[s] # <<>>

\* C3 witness: a second batch that recompiled a changed source and skipped an
\* unchanged one
C3_Witness ==
    /\ pc = "done" /\ hist.prevGood /\ ~force
    /\ \E s \in Sources : Changed(s) /\ engineCalls[s] # <<>>
    /\ \E s \in Sources : ~Changed(s) /\ engineCalls[s] = <<>> /\ outcome[s] = "skipped"

\* C4: a batch takes up every source once, in order, whatever fails; the success
\* count is the number of sources skipped or compiled, the failure count the
\* rest; the batch succeeds exactly when nothing failed; every compiled source
\* has its artifact on disk at the end.
C4_PartialFailure ==
    /\ order = [i \in 1..Len(order) |-> i]
    /\ (pc = "done" /\ check_requirements /\ runs > 0) =>
        /\ order = [i \in 1..NumSources |-> i]
        /\ success_count =
              Cardinality({s \in Sources : outcome[s] \in {"skipped", "compiled"}})
        /\ NumSources - success_count =
              Cardinality({s \in Sources : outcome[s] = "failed"})
        /\ (batchResult = "ok") <=> (NumSources - success_count = 0)
        /\ \A s \in Sources : outcome[s] = "compiled" => artifact[s].st = "repaired"

\* C4 witness: a finished batch whose first source failed and whose last compiled
C4_Witness ==
    /\ pc = "done" /\ batchResult = "failed"
    /\ outcome[1] = "failed" /\ outcome[NumSources] = "compiled"

\* the last engine call made for s in this batch failed
LastFailed(s) ==
    /\ engineCalls[s] # <<>>
    /\ engineCalls[s][Len(engineCalls[s])].out # "ok"

\* C5: the stages run in order and no stage runs after one that failed; a
\* compile whose stage k failed has returned failure with the engine called for
\* stages 1..k only, and the compiled stylesheet and the cache file are as they
\* were when the compile began.
C5_StrictChain ==
    \A s \in Sources :
        LET c == engineCalls[s] IN
        /\ \A i \in 1..Len(c) : c[i].stage = i /\ (i < Len(c) => c[i].out = "ok")
        /\ LastFailed(s) =>
            /\ outcome[s] \in {"pending", "failed"}
            /\ outcome[s] = "pending" =>
                /\ s = idx /\ pc = "ret" /\ ~ret.ok /\ ret.stage = Len(c)
                /\ artifact[s] = pre.artifact
                /\ cacheFile[s] = pre.cache

\* C5 witness: stage 2 has failed for a source that had an artifact and a record
C5_Witness ==
    /\ pc = "ret" /\ LastFailed(idx) /\ ret.stage = 2
    /\ pre.artifact.st = "repaired" /\ HasRecord(pre.cache)

InCompile ==
    pc \in {"stage1", "stage2", "stage3", "delete", "copy", "repair", "hash",
            "save", "cleanup", "ret"}

C21_Intermediates ==
    /\ []((pc = "ret" /\ ret.ok) =>
            /\ \A k \in Stages : k \notin pre.undeleted => temp[idx][k] = 0
            /\ \A k \in pre.undeleted : temp[idx][k] # 0
            /\ artifact[idx] = [src |-> pre.out, st |-> "repaired"])
    /\ []((pc = "ret" /\ ~ret.ok /\ ret.stage \in Stages) =>
            \A j \in 1..(ret.stage - 1) : temp[idx][j] # 0)
    /\ [][pc = "cleanup" =>
            (artifact' = artifact /\ cacheFile' = cacheFile /\ ret'.ok)]_vars

\* C21 witness: the unlink of the stage-2 intermediate failed; the compile
\* returned success with the two others gone and the record written
C21_Witness ==
    /\ pc = "ret" /\ ret.ok /\ pre.undeleted = {2}
    /\ temp[idx][1] = 0 /\ temp[idx][2] # 0 /\ temp[idx][3] = 0
    /\ artifact[idx].st = "repaired" /\ HasRecord(cacheFile[idx])

\* C22: a source whose compile returned success is counted as a success also
\* when validate_output finds no stylesheet root or no template rule in the
\* compiled stylesheet: the success count goes up by one, the batch succeeds
\* exactly when no compile returned failure, and the compiled stylesheet and
\* the cache file stay as the compile left them.
C22_PostValidation ==
    /\ []((pc = "loop" /\ checked = "warned") =>
            /\ outcome[idx - 1] = "compiled"
            /\ success_count =
                  Cardinality({s \in Sources : outcome[s] \in {"skipped", "compiled"}})
            /\ artifact[idx - 1].st = "repaired")
    /\ [][pc = "ret" =>
            /\ artifact' = artifact /\ cacheFile' = cacheFile
            /\ ret.ok => success_count' = success_count + 1]_vars
    /\ [][(pc = "loop" /\ pc' = "done") =>
            (batchResult' = "ok" <=> \A s \in Sources : outcome[s] # "failed")]_vars

\* C22 witness: the last source compiled, its stylesheet failed the structural
\* check, and every source of the batch is counted
C22_Witness ==
    /\ pc = "loop" /\ idx > NumSources /\ checked = "warned"
    /\ success_count = NumSources
    /\ outcome[NumSources] = "compiled"
    /\ artifact[NumSources].st = "repaired" /\ HasRecord(cacheFile[NumSources])

\* ---- the severity chain
\* the finding declares one of the four roles, in any letter case
RoleRecognised(f) == f.role # Absent /\ Lower(f.role) \in Severities

\* the severity of the first keyword set, in the order fatal, error, warning,
\* info, with a keyword in the text; Unclassified when there is none
ByKeyword(text) ==
    IF AnyIn(Lower(text), FatalKeywords) THEN SevFatal
    ELSE IF AnyIn(Lower(text), ErrorKeywords) THEN SevError
    ELSE IF AnyIn(Lower(text), WarningKeywords) THEN SevWarning
    ELSE IF AnyIn(Lower(text), InfoKeywords) THEN SevInfo
    ELSE Unclassified

HasKeyword(f) == f.text # Absent /\ ByKeyword(f.text) # Unclassified

\* C7: a finding whose role is absent or is none of the four gets the severity
\* of the first keyword set that matches its message.
C7_KeywordFallback ==
    (sevOut # Unclassified /\ ~RoleRecognised(sevIn) /\ HasKeyword(sevIn))
        => sevOut = ByKeyword(sevIn.text)

\* C8: a finding whose role is one of the four, in any letter case, gets that
\* role in lower case as its severity, whatever its message and test are.
C8_RoleAuthoritative ==
    (sevOut # Unclassified /\ RoleRecognised(sevIn)) => sevOut = Lower(sevIn.role)

\* C8 witness: role WARNING with the message "must not" is classified warning
C8_Witness ==
    /\ sevIn.role = <<"W", "A", "R", "N", "I", "N", "G">>
    /\ sevIn.text = <<"m", "u", "s", "t", " ", "n", "o", "t">>
    /\ sevOut = SevWarning

\* C9: every finding gets one of the four severities, and error when neither
\* its role nor a keyword of its message matches, with or without a negation in
\* its test.
C9_Total ==
    sevOut # Unclassified =>
        /\ sevOut \in Severities
        /\ (~RoleRecognised(sevIn) /\ ~HasKeyword(sevIn)) => sevOut = SevError

\* C9 witness: no role, an empty message and a test without negation give error
C9_Witness ==
    /\ sevIn = [role |-> Absent, text |-> <<>>, test |-> <<"x">>]
    /\ sevOut = SevError

\* ---- the document report
RunsAllSucceeded(res) ==
    \A i \in DOMAIN res.xslt_results : res.xslt_results[i].success

\* the failed assertions of all runs of the document
RECURSIVE TotalFailed(_)
TotalFailed(rs) ==
    IF rs = <<>> THEN 0 ELSE Head(rs).failed_assertions + TotalFailed(Tail(rs))

\* C10: the document is reported valid exactly when every run succeeded and
\* the failed assertions of its runs add up to zero, whatever their severities.
C10_Verdict ==
    report.written =>
        (report.is_valid <=> /\ RunsAllSucceeded(results)
                             /\ TotalFailed(results.xslt_results) = 0)

\* C10 witness: every run succeeded, the only findings are warning or info, and
\* the document is invalid
C10_Witness ==
    /\ report.written /\ ~report.is_valid
    /\ RunsAllSucceeded(results)
    /\ report.overall_severity_breakdown[SevFatal] = 0
    /\ report.overall_severity_breakdown[SevError] = 0
    /\ report.overall_severity_breakdown[SevWarning]
         + report.overall_severity_breakdown[SevInfo] > 0

RECURSIVE SumSeq(_)
SumSeq(ns) == IF ns = <<>> THEN 0 ELSE Head(ns) + SumSeq(Tail(ns))

\* the histogram entry of a run; a run that was not analysed has no histogram
RunHist(r, sv) == IF r.has_breakdown THEN r.severity_breakdown[sv] ELSE 0

\* C11: the document's totals of fired rules, failed assertions and successful
\* reports are the sums of the counts of all its runs, and each key of the
\* overall severity histogram is the sum of that key over the runs' histograms.
C11_Totals ==
    report.written =>
        LET rs == results.xslt_results IN
        /\ report.total_rules_fired = SumSeq([i \in DOMAIN rs |-> rs[i].fired_rules])
        /\ report.total_failed_assertions =
              SumSeq([i \in DOMAIN rs |-> rs[i].failed_assertions])
        /\ report.total_successful_reports =
              SumSeq([i \in DOMAIN rs |-> rs[i].successful_reports])
        /\ results.total_fired_rules = report.total_rules_fired
        /\ results.total_failed_assertions = report.total_failed_assertions
        /\ results.total_successful_reports = report.total_successful_reports
        /\ \A sv \in Severities :
              report.overall_severity_breakdown[sv] =
                  SumSeq([i \in DOMAIN rs |-> RunHist(rs[i], sv)])

\* C11 witness: two runs with one finding each, a warning and an error
C11_Witness ==
    /\ report.written
    /\ report.total_failed_assertions = 2
    /\ report.total_rules_fired = 2
    /\ report.overall_severity_breakdown[SevWarning] = 1
    /\ report.overall_severity_breakdown[SevError] = 1

\* C30: the report lists one result per rule set the document was validated
\* against, in order, so that the list is as long as the rule-set count of the
\* report's metadata, a run that failed to execute included.
C30_EveryRunReported ==
    report.written =>
        /\ Len(report.schematron_results) = report.total_xslt_files_processed
        /\ \A i \in DOMAIN report.schematron_results :
              report.schematron_results[i].xslt_file = results.xslt_results[i].xslt_file

\* the four values of a severity histogram, added up
HistTotal(h) == h[SevFatal] + h[SevError] + h[SevWarning] + h[SevInfo]

\* C32: for every run whose output was parsed the four histogram values add up
\* to the run's failed assertions, which is the number of findings listed,
\* and each histogram value is the number of listed findings of that severity;
\* in the report the same holds for every listed run, and the four overall
\* values add up to the document's total of failed assertions.
C32_Histogram ==
    /\ \A i \in DOMAIN results.xslt_results \cap DOMAIN vlog :
          LET r == results.xslt_results[i] IN
          (vlog[i].to = "svrl" /\ vlog[i].parsable) =>
              /\ r.has_breakdown
              /\ HistTotal(r.severity_breakdown) = r.failed_assertions
              /\ r.failed_assertions = Len(r.error_details)
              /\ \A sv \in Severities :
                    r.severity_breakdown[sv] =
                        Cardinality({j \in DOMAIN r.error_details :
                                        r.error_details[j].severity = sv})
    /\ report.written =>
          /\ HistTotal(report.overall_severity_breakdown) = report.total_failed_assertions
          /\ \A k \in DOMAIN report.schematron_results :
                LET e == report.schematron_results[k] IN
                e.has_breakdown =>
                    /\ HistTotal(e.severity_breakdown) = e.failed_assertions
                    /\ e.failed_assertions = Len(e.errors)

\* C32 witness: a report of two parsed runs, an info finding in the first and a
\* warning finding in the second
C32_Witness ==
    /\ vpc = "returned" /\ report.written
    /\ Len(results.xslt_results) = 2 /\ Len(vlog) = 2
    /\ vlog[1].parsable /\ vlog[1].to = "svrl" /\ vlog[2].parsable /\ vlog[2].to = "svrl"
    /\ Len(results.xslt_results[1].error_details) = 1
    /\ Len(results.xslt_results[2].error_details) = 1
    /\ results.xslt_results[1].error_details[1].severity = SevInfo
    /\ results.xslt_results[1].severity_breakdown[SevInfo] = 1
    /\ results.xslt_results[2].error_details[1].severity = SevWarning
    /\ report.overall_severity_breakdown[SevWarning] = 1
    /\ HistTotal(report.overall_severity_breakdown) = 2

\* ---- the runs of a document
\* validate_xml_file is in its loop or has returned the result dictionary
InDocument == vpc \in {"rules", "returned"} /\ results.has_totals

\* C12: a run in which the engine raised, or returned with its fault flag set,
\* is returned with success false and an error message; the rule sets after it
\* and the documents after it are run all the same, and the result list has one
\* entry per rule set, in the order given.
C12_FaultsContained ==
    InDocument =>
        LET rs == results.xslt_results IN
        /\ Len(rs) = vidx - 1 /\ Len(vlog) = Len(rs)
        /\ vpc = "returned" => Len(rs) = Len(xsl_files)
        /\ \A i \in DOMAIN rs :
            /\ rs[i].xslt_file = xsl_files[i]
            /\ vlog[i].to \in {"raise", "fault"} =>
                  (~rs[i].success /\ rs[i].error # "none")
            /\ vlog[i].to = "svrl" => rs[i].success

\* C12 witness: in a second document, after a fault in the first, the first
\* rule set faults and the second one runs and succeeds
C12_Witness ==
    /\ docs = 2 /\ prevFault /\ vpc = "returned" /\ report.written
    /\ vlog[1].to = "fault" /\ ~results.xslt_results[1].success
    /\ vlog[2].to = "svrl" /\ results.xslt_results[2].success

\* C13: a run whose output cannot be parsed keeps success true, has zero fired
\* rules, failed assertions and successful reports and no findings; the rule
\* sets after it are run all the same.
C13_ParseFailure ==
    InDocument =>
        LET rs == results.xslt_results IN
        /\ vpc = "returned" => Len(rs) = Len(xsl_files)
        /\ \A i \in DOMAIN rs :
            (vlog[i].to = "svrl" /\ ~vlog[i].parsable) =>
                /\ rs[i].success
                /\ rs[i].fired_rules = 0
                /\ rs[i].failed_assertions = 0
                /\ rs[i].successful_reports = 0
                /\ rs[i].error_details = <<>>
                /\ ~rs[i].has_breakdown

\* C13 witness: the first run's output did not parse, the second run reported
\* a failed assertion
C13_Witness ==
    /\ vpc = "returned" /\ report.written
    /\ vlog[1].to = "svrl" /\ ~vlog[1].parsable
    /\ results.xslt_results[2].failed_assertions = 1

\* C24: a document that does not exist is answered with a failed result and an
\* error message, without an engine call, a run or a change of the statistics
\* and the executable cache; a stylesheet that does not exist gives a failed
\* run with an error message and no engine call, the document's success flag
\* is false, and the stylesheets after it are run all the same.
C24_Preconditions ==
    /\ [](results.error = "xml_not_found" =>
            /\ results.returned /\ ~results.success
            /\ results.xslt_results = <<>> /\ vlog = <<>>)
    /\ [][results'.error = "xml_not_found" /\ docs' # docs =>
            (stats' = stats /\ xslt_cache' = xslt_cache /\ compiles' = compiles)]_vars
    /\ [](InDocument =>
            LET rs == results.xslt_results IN
            /\ vpc = "returned" => Len(rs) = Len(xsl_files)
            /\ \A i \in DOMAIN rs :
                  (~vlog[i].called \/ vlog[i].gone) =>
                      /\ ~rs[i].success /\ rs[i].error # "none"
                      /\ vlog[i].engine = 0 /\ vlog[i].to = "none"
                      /\ ~results.success)

\* C24 witness: the first document did not exist; in the second the first
\* stylesheet does not exist and the second one was run and succeeded
C24_Witness ==
    /\ docs = 2 /\ stats.total_validations = 1
    /\ vpc = "returned" /\ report.written /\ ~results.success
    /\ ~vlog[1].called /\ results.xslt_results[1].error = "not_found"
    /\ vlog[2].called /\ vlog[2].engine = 1 /\ results.xslt_results[2].success

\* C14: the engine's compile is called only for a path that is not in the
\* cache; a call for a cached path returns the cached executable with no engine
\* call and one more hit; a cached executable is never replaced; a path is
\* compiled successfully at most once and the hit counter is the number of
\* calls answered from the cache.
C14_CacheHitMiss ==
    /\ [](/\ \A i \in DOMAIN vlog :
                vlog[i].called =>
                    /\ vlog[i].engine > 0 => vlog[i].cached = NoExe
                    /\ vlog[i].engine <= 1
                    /\ vlog[i].cached # NoExe =>
                          /\ vlog[i].exe = vlog[i].cached
                          /\ vlog[i].engine = 0
                          /\ vlog[i].hits_after = vlog[i].hits + 1
          /\ \A s \in Sources : compiles[s] <= 1
          /\ stats.cache_hits = answered)
    /\ [][\A s \in Sources :
             xslt_cache[s] # NoExe => xslt_cache'[s] = xslt_cache[s]]_vars

\* C14 witness: a call answered from the cache after the stylesheet was rebuilt
C14_Witness ==
    /\ vlog # <<>>
    /\ LET c == vlog[Len(vlog)] IN
        /\ c.called /\ c.cached # NoExe /\ c.exe = c.cached
        /\ artifact[c.x].st = "repaired" /\ artifact[c.x].src # c.exe.src
    /\ stats.cache_hits >= 1

\* C15: a get_compiled_xslt call that fails leaves no cache entry for the path
\* and the hit counter as it was; a call for a path without an entry whose file
\* is there calls the engine's compile, and can succeed after a failure.
C15_FailureNotCached ==
    \A i \in DOMAIN vlog :
        vlog[i].called =>
            /\ vlog[i].exe = NoExe =>
                  /\ vlog[i].cached_after = NoExe
                  /\ vlog[i].hits_after = vlog[i].hits
            /\ (vlog[i].cached = NoExe /\ ~vlog[i].gone) => vlog[i].engine = 1

\* C15 witness: the compile of a path failed for one document and gave the
\* executable for the next
C15_Witness ==
    /\ vlog # <<>>
    /\ LET c == vlog[Len(vlog)] IN
        /\ c.called /\ failedGet[c.x] /\ c.engine = 1 /\ c.exe # NoExe
        /\ xslt_cache[c.x] = c.exe

\* ---- main
\* C16: when one rule source fails to compile and another compiles or is up to
\* date, the validator still validates every input document against the
\* compiled stylesheets that are present and returns a result for each.
C16_CompileErrorContained ==
    (/\ mpc = "exit"
     /\ check_requirements
     /\ \E s \in Sources : outcome[s] = "failed"
     /\ \E s \in Sources : outcome[s] \in {"compiled", "skipped"}
                            /\ artifact[s].st = "repaired")
        => Len(all_results) = nDocs

\* C17: when a validated document has a failed assertion, or a run of it
\* failed to execute, the exit status is not zero; the exit status is zero only
\* when every document validated had all its runs succeed without a failed
\* assertion.
C17_ExitStatus ==
    mpc = "exit" =>
        /\ (\E i \in DOMAIN all_results :
                \/ all_results[i].failed_sum > 0
                \/ all_results[i].runs_failed > 0) => exit_code # 0
        /\ exit_code = 0 =>
              \A i \in DOMAIN all_results :
                  /\ all_results[i].validated
                  /\ all_results[i].runs_failed = 0
                  /\ all_results[i].failed_sum = 0

\* C17 witness: batch mode, a valid document and then one with a failed
\* assertion in runs that all succeeded; the exit status is 1
C17_Witness ==
    /\ mpc = "exit" /\ mode = "batch" /\ Len(all_results) = 2
    /\ all_results[1].success /\ all_results[1].failed_sum = 0
    /\ all_results[2].runs_failed = 0 /\ all_results[2].failed_sum > 0
    /\ exit_code = 1

\* a transformation stylesheet or the rule-source directory is missing
ConfigMissing == isoPresent # Stages \/ ~schDirExists

\* C23: with a transformation stylesheet or the rule-source directory missing
\* the batch compilation returns failure, the engine is never called, no
\* compiled stylesheet, cache file or intermediate is created, changed or
\* deleted, and no document is validated.
C23_ConfigurationError ==
    /\ [](ConfigMissing =>
            /\ \A s \in Sources : engineCalls[s] = <<>>
            /\ pc \in {"idle", "done"}
            /\ pc = "done" => batchResult = "failed"
            /\ docs = 0 /\ vlog = <<>> /\ all_results = <<>>
            /\ stats.total_validations = 0)
    /\ [][ConfigMissing =>
            (artifact' = artifact /\ cacheFile' = cacheFile /\ temp' = temp)]_vars

\* C23 witness: main has ended with documents to validate and stylesheets
\* built earlier on disk, the batch having failed on the requirements
C23_Witness ==
    /\ mpc = "exit" /\ ConfigMissing /\ nDocs > 0
    /\ batchResult = "failed"
    /\ \A s \in Sources : artifact[s].st = "repaired" /\ HasRecord(cacheFile[s])

\* C25: in a batch with force_rebuild the pipeline is entered for every rule
\* source, in order, also for one whose compiled stylesheet is there and whose
\* cache record holds the digest of its content, and no source is skipped.
C25_ForceRebuild ==
    (force /\ ~ConfigMissing /\ pc # "idle") =>
        /\ \A s \in Sources : outcome[s] # "skipped"
        /\ \A i \in DOMAIN order :
              engineCalls[order[i]] # <<>> \/ (pc = "stage1" /\ idx = order[i])
        /\ pc = "done" =>
              /\ order = [i \in 1..NumSources |-> i]
              /\ \A s \in Sources : engineCalls[s] # <<>>

\* C25 witness: a forced batch after a batch that left every source up to
\* date, no source changed in between; every source went through the engine
C25_Witness ==
    /\ pc = "done" /\ force /\ hist.prevGood
    /\ \A s \in Sources : ~Changed(s) /\ outcome[s] = "compiled"
    /\ \A s \in Sources : Len(engineCalls[s]) = 3

\* C26: at every point of a compile, a forced one of an up-to-date source
\* included, needs_transformation answers true for the source unless the
\* compiled stylesheet on disk is the complete, repaired output of compiling
\* the source's current content.
C26_CrashConsistency ==
    (InCompile /\ ~needs_transformation(idx)) =>
        artifact[idx] = [src |-> content[idx], st |-> "repaired"]

\* C27: two runs of the pipeline on one unchanged rule source, with an engine
\* that fails on nothing but a missing file. When the runs do not overlap both
\* return success and the compiled stylesheet and the cache record of the
\* source are there afterwards; a run fails only when the runs overlapped.
C27_Serialized ==
    /\ \A p \in Procs : (cpc[p] = "done" /\ ~cres[p].ok) => overlap
    /\ ((\A p \in Procs : cpc[p] = "done") /\ ~overlap) =>
          /\ \A p \in Procs : cres[p].ok
          /\ artifact[ConcSrc] = [src |-> content[ConcSrc], st |-> "repaired"]
          /\ RecordDigest(ConcSrc) = Digest(content[ConcSrc])

\* C27 witness: the runs overlapped; one returned success, the other failed
\* at the copy because the stage-3 intermediate had been unlinked by the
\* first, after it had unlinked the compiled stylesheet, which is now absent
C27_Witness ==
    /\ \A p \in Procs : cpc[p] = "done"
    /\ overlap
    /\ \E p \in Procs :
          /\ cres[p] = [ok |-> FALSE, stage |-> 4, kind |-> "fail_none"]
          /\ cres[Other(p)].ok
    /\ temp[ConcSrc][3] = 0
    /\ artifact[ConcSrc] = NoArtifact

\* every stylesheet was run on the document without an engine fault, and no
\* run's output could be parsed
AllUnparsed ==
    /\ vlog # <<>> /\ Len(vlog) = Len(xsl_files)
    /\ \A i \in DOMAIN vlog :
          vlog[i].called /\ vlog[i].to = "svrl" /\ ~vlog[i].parsable

\* C28: a document whose runs all executed and all returned output that cannot
\* be parsed is reported with success true, no failed assertion and is_valid
\* true, and main exits with status 0 in single-file mode.
C28_UnparsedIsValid ==
    (report.written /\ AllUnparsed) =>
        /\ results.success /\ results.total_failed_assertions = 0
        /\ report.validation_success /\ report.total_failed_assertions = 0
        /\ report.is_valid
        /\ (mpc = "exit" /\ mode = "single") => exit_code = 0

\* C28 witness: single-file mode, every stylesheet run, no output parsed, and
\* the process has exited with status 0
C28_Witness ==
    /\ mpc = "exit" /\ mode = "single" /\ exit_code = 0
    /\ report.written /\ AllUnparsed
    /\ Len(xsl_files) = NumSources
    /\ report.schematron_results # <<>>

\* C29: the executable a document is validated with is the one compiled from
\* the stylesheet that is on disk at that path when it is used, also after a
\* later validate_samples call has recompiled the rule source.
C29_FreshExecutable ==
    \A i \in DOMAIN vlog :
        (vlog[i].called /\ vlog[i].exe # NoExe) => vlog[i].exe = vlog[i].disk

\* C31: when the batch compilation returned failure, and when no document was
\* validated at all, the process exits with a status that is not zero, in batch
\* mode as in single-file mode.
C31_ModesAgree ==
    (mpc = "exit" /\ (batchResult = "failed" \/ all_results = <<>>)) =>
        exit_code # 0

\* ---- the cache record
\* C20: a cache file left with the digest line and no timestamp line is read
\* as holding no record: needs_transformation answers true, whatever the digest.
C20_PartialRecord ==
    (/\ chk.s # 0
     /\ chk.cache.exists /\ chk.cache.readable
     /\ Len(chk.cache.lines) = 1) => chk.need

\* C20 witness: the lone digest line is the digest of the current content and
\* the compiled stylesheet is there
C20_Witness ==
    /\ chk.s # 0 /\ chk.need
    /\ chk.artifact.st = "repaired"
    /\ chk.cache.exists /\ chk.cache.readable
    /\ chk.cache.lines = <<Digest(chk.content)>>

\* ---- namespace repair
\* the text has the opening tag of a stylesheet root element
HasRoot(text) ==
    \E i \in DOMAIN text :
        text[i] \in RootOpens /\ \E j \in DOMAIN text : j > i /\ text[j] = ">"

MarkerCount(text) == Cardinality({i \in DOMAIN text : text[i] = XsdMarker})

\* C18: after a compile that returned success the committed stylesheet holds a
\* declaration of the XML-Schema namespace, whatever stage 3 produced.
C18_NamespaceComplete ==
    nsLog # <<>> =>
        \E i \in DOMAIN nsLog[1].after :
            nsLog[1].after[i] \in {XsdMarker, "xmlns:xs="}

\* C19: a pass over a text with a stylesheet root and no declaration inserts
\* one declaration, before the ">" of the first stylesheet opening tag, and
\* changes nothing else; a pass after it, and a pass over a text that has the
\* declaration, reports no change and leaves the text as it was.
C19_RepairOnce ==
    \A n \in DOMAIN nsLog :
        LET p == nsLog[n] IN
        p.io = "ok" =>
            /\ (HasRoot(p.before) /\ ~HasMarker(p.before)) =>
                  /\ p.changed
                  /\ MarkerCount(p.after) = 1
                  /\ \E j \in DOMAIN p.before :
                        /\ p.before[j] = ">"
                        /\ \E i \in 1..(j - 1) :
                              /\ p.before[i] \in RootOpens
                              /\ \A k \in 1..(i - 1) : p.before[k] \notin RootOpens
                              /\ \A k \in (i + 1)..(j - 1) : p.before[k] # ">"
                        /\ p.after = SubSeq(p.before, 1, j - 1) \o <<XsdMarker>>
                                        \o SubSeq(p.before, j, Len(p.before))
            /\ HasMarker(p.before) => (~p.changed /\ p.after = p.before)
            /\ (n > 1 /\ nsLog[n - 1].io = "ok") => (~p.changed /\ p.after = p.before)

\* C19 witness: a text with two stylesheet opening tags got the declaration in
\* the first, and the second pass changed nothing
C19_Witness ==
    /\ Len(nsLog) = 2
    /\ nsLog[1].io = "ok" /\ nsLog[2].io = "ok"
    /\ nsLog[1].before = <<"<xsl:stylesheet", ">", "<xsl:stylesheet", ">">>
    /\ nsLog[1].changed /\ ~nsLog[2].changed
    /\ nsText = <<"<xsl:stylesheet", XsdMarker, ">", "<xsl:stylesheet", ">">>

====
